---- MODULE Spec2Model ----
(***************************************************************************)
(* wao-base: the scrape / persist pipeline.                                *)
(*                                                                         *)
(*   - the persistence store (DatabaseManager over the SQLite schema),     *)
(*   - the run coordinator (SchedulerService: cron-triggered scheduled     *)
(*     runs and on-demand runs started by POST /api/scrape),               *)
(*   - the notification service (NotificationService polling the store).   *)
(*                                                                         *)
(* The specifications share the store operators:                           *)
(*   StoreSpec  the store's public operations called in any order with     *)
(*              any batch (the store contract on its own),                 *)
(*   Spec       the coordinator driving the store (FairSpec adds the       *)
(*              fairness of the event loop: a pending fetch or timer       *)
(*              eventually completes).                                     *)
(*   RetentionSpec  the store written around the retention cutoff,         *)
(*   QuerySpec  single upserts and calls of getShows,                      *)
(*   NotifySpec the notification service with a clock.                     *)
(*                                                                         *)
(* Dates are day numbers (ISO YYYY-MM-DD strings compare like them);       *)
(* Today is day 0.  Node runs one callback at a time, so an action is one  *)
(* event-loop turn: the code from one real suspension point (network       *)
(* fetch, timer) to the next.  better-sqlite3 calls are synchronous.       *)
(***************************************************************************)
EXTENDS Integers, Sequences, FiniteSets, TLC

VARIABLES
    stations,     \* table stations: set of [domain, enabled]
    days,         \* table days: set of [stationDomain, day]
    shows,        \* table shows: set of rows (id, key fields, style, createdAt)
    nextId,       \* sqlite_sequence of shows (AUTOINCREMENT): next surrogate id
    sent,         \* table bot_notifications_sent: set of [telegramId, showId, type]
    lastUpsert,   \* history: the last direct call of upsertShows (StoreSpec)
    lastCall,     \* history: the last call of a function of the program with its
                  \* arguments and its result
    lastMark,     \* history: the last direct call of markNotificationSent
                  \* (RetentionSpec)
    lastQuery,    \* history: the last call of getShows and its result (QuerySpec)
    lastCleanup,  \* history: how the last store call ended when it was
                  \* cleanupOldData (RetentionSpec)
    isRunning,    \* SchedulerService.isRunning
    cronJob,      \* SchedulerService.cronJob is set
    sched,        \* the scheduled run (position of runScheduledScrape)
    manual,       \* the on-demand runs (positions of runManualScrape calls)
    schedStarted, \* history: scheduled runs that entered their loop
    idleTriggers, \* history: triggers that arrived while isRunning was false
    dropped,      \* history: a trigger arrived while isRunning was true
    reply,        \* history: status of the last reply of POST /api/scrape, 0 before any
    clock,        \* the time, in minutes since 00:00 of Today (NotifySpec)
    notif,        \* NotificationService: cronJob, isRunning and the position of
                  \* the pass (checkAndSendNotifications)
    polled,       \* history: the <<show id, literal>> pairs the last step evaluated
    dispatched,   \* history: the pairs a sendMessage has succeeded for
    duplicated,   \* history: the pairs a sendMessage has succeeded for twice
    botUsers,     \* table bot_users: set of telegram ids
    preferences,  \* table bot_user_preferences: set of
                  \* [telegramId, notification_times, timezone]
    handlers,     \* TelegramBotService: the handlers of the updates of one poll
                  \* that are suspended at an await (BotSpec)
    database,     \* DatabaseManager: isInitialized, db (the handle is set) and
                  \* initializationError
    listening,    \* the process: where start() of the server has got to
    lastOp        \* history: how the last call of the store or of the health
                  \* route ended (DbSpec)

storeVars == <<stations, days, shows, nextId, sent, lastUpsert>>
coordVars == <<isRunning, cronJob, sched, manual, schedStarted, idleTriggers,
               dropped, reply>>
notifyVars == <<clock, notif, polled, dispatched, duplicated>>
prefVars == <<botUsers, preferences, handlers>>
dbVars == <<database, listening, lastOp>>
auxVars == <<lastCleanup, lastQuery, lastMark, lastCall, notifyVars, prefVars, dbVars>>

\* what the steps of RetentionSpec, QuerySpec and NotifySpec leave unchanged
\* besides the store
retentionFrame == <<coordVars, lastQuery, lastCall, notifyVars, prefVars, dbVars>>
queryFrame == <<coordVars, lastCleanup, lastMark, lastCall, notifyVars, prefVars, dbVars>>
notifyFrame == <<coordVars, lastCleanup, lastQuery, lastMark, lastCall, prefVars, dbVars>>
\* what the calls of the functions leave unchanged
callFrame == <<storeVars, coordVars, lastCleanup, lastQuery, lastMark, notifyVars,
               prefVars, dbVars>>
\* what the messages to the bot leave unchanged
botFrame == <<storeVars, coordVars, lastCleanup, lastQuery, lastMark, notifyVars,
              dbVars>>
\* what the calls of a store that may have failed to open leave unchanged
dbFrame == <<coordVars, lastCleanup, lastQuery, lastMark, lastCall, notifyVars, prefVars>>
vars == <<stations, days, shows, nextId, sent, lastUpsert,
          isRunning, cronJob, sched, manual, schedStarted, idleTriggers,
          dropped, reply, auxVars>>

----------------------------------------------------------------------------
(* Bounds of the model *)

\* dates in the relative window of a full run (the program's window has 7)
WindowDays == 1
\* on-demand runs that can be in flight together
MaxManual == 1
\* triggers (initial run at start, cron ticks) that arrive while idle
MaxTriggers == 2
\* rows ever inserted into shows (the AUTOINCREMENT counter is unbounded)
MaxRows == 3
\* rows in one batch handed to upsertShows in StoreSpec
MaxBatch == 2

(* Program constants *)

\* date('now'): the current day
Today == 0
\* first day of the window relative to today ("for (let i = -1; ...")
WindowFirst == -1
\* config.retentionDays (WAOBASE_RETENTION_DAYS; 60 by default, 1..365)
RetentionDays == 2

\* config.stations, in configuration order
ConfigStations == <<"technobase.fm", "housetime.fm">>
\* a domain with no row in stations
UnknownStation == "unknown.fm"

None == "none"

\* an optional value of a request body: absent, or present
Absent == <<>>
Some(x) == <<x>>

----------------------------------------------------------------------------
(* Persistence store *)

\* variant, not the program's: the index of the README's data model, which
\* leaves the station out of the key
KeyWithoutStation(r) == <<r.day, r.dj, r.title, r.start, r.end>>

\* the UNIQUE constraint of shows
Key(r) == <<r.day, r.stationDomain, r.dj, r.title, r.start, r.end>>

\* FOREIGN KEY (station_domain) REFERENCES stations(domain), foreign_keys = ON
ForeignKeyOk(stationsTbl, show) ==
    \E s \in stationsTbl : s.domain = show.stationDomain

\* CURRENT_TIMESTAMP, as a logical time: the number of rows the shows table
\* had been given when the call began
Timestamp(seqNo) == seqNo - 1

\* the row INSERT INTO shows creates: AUTOINCREMENT id, DEFAULT created_at
NewRow(show, id, now) ==
    [id |-> id, day |-> show.day, stationDomain |-> show.stationDomain,
     dj |-> show.dj, title |-> show.title, start |-> show.start,
     end |-> show.end, style |-> show.style, createdAt |-> now]

\* variant, not the program's: an INSERT with no conflict target
NoConflict(rows, show) == {}

\* ON CONFLICT(day, station_domain, dj, title, start_time, end_time)
ConflictsWith(rows, show) == {r \in rows : Key(r) = Key(show)}

\* variant, not the program's: ... DO UPDATE SET style = excluded.style
OnConflictUpdate(tx, show) ==
    [tx EXCEPT !.shows = {IF r.day = show.day /\ r.stationDomain = show.stationDomain
                              /\ r.dj = show.dj /\ r.title = show.title
                              /\ r.start = show.start /\ r.end = show.end
                          THEN [r EXCEPT !.style = show.style]
                          ELSE r : r \in tx.shows}]

\* ... DO NOTHING: the statement leaves the table as it is
OnConflict(tx, show) == tx

\* one stmt.run(...) of the prepared INSERT inside the transaction;
\* tx = [ok, shows, nextId]
StmtRun(tx, stationsTbl, show, now) ==
    IF ~ForeignKeyOk(stationsTbl, show)
    THEN [tx EXCEPT !.ok = FALSE]
    ELSE IF ConflictsWith(tx.shows, show) # {}
         THEN OnConflict(tx, show)
         ELSE [tx EXCEPT !.shows = tx.shows \cup {NewRow(show, tx.nextId, now)},
                         !.nextId = tx.nextId + 1]

\* the function wrapped by db.transaction: "for (const show of shows) stmt.run"
\* faultAt = k > 0: the k-th stmt.run throws an engine error (disk full, I/O)
RECURSIVE TransactionBody(_, _, _, _, _, _)
TransactionBody(tx, stationsTbl, batch, i, faultAt, now) ==
    IF i > Len(batch) \/ ~tx.ok
    THEN tx
    ELSE IF i = faultAt
         THEN [tx EXCEPT !.ok = FALSE]
         ELSE TransactionBody(StmtRun(tx, stationsTbl, batch[i], now),
                              stationsTbl, batch, i + 1, faultAt, now)

\* variant, not the program's: the loop of stmt.run without db.transaction,
\* every statement committing on its own
NoTransaction(before, after) == after

\* db.transaction(fn): COMMIT when fn returns, ROLLBACK when it throws
Transaction(before, after) ==
    IF after.ok THEN after ELSE [before EXCEPT !.ok = FALSE]

\* the state the transaction of upsertShows reaches before COMMIT / ROLLBACK
UpsertBody(rows, seqNo, stationsTbl, batch, faultAt) ==
    TransactionBody([ok |-> TRUE, shows |-> rows, nextId |-> seqNo],
                    stationsTbl, batch, 1, faultAt, Timestamp(seqNo))

\* DatabaseManager.upsertShows, on the tables [shows, nextId]
UpsertShows(rows, seqNo, stationsTbl, batch, faultAt) ==
    Transaction([ok |-> TRUE, shows |-> rows, nextId |-> seqNo],
                UpsertBody(rows, seqNo, stationsTbl, batch, faultAt))

\* DatabaseManager.upsertDay: INSERT ... ON CONFLICT(station_domain, day)
\* DO UPDATE SET scraped_at.  scraped_at is written and never read: the row
\* is its primary key.
UpsertDay(dayRows, stationDomain, day) ==
    {d \in dayRows : ~(d.stationDomain = stationDomain /\ d.day = day)}
        \cup {[stationDomain |-> stationDomain, day |-> day]}

\* date('now', '-N days')
CutoffDay(retentionDays) == Today - retentionDays

\* schema cleanupOldData: DELETE FROM shows WHERE day < cutoff
CleanupShows(rows, retentionDays) ==
    {r \in rows : ~(r.day < CutoffDay(retentionDays))}

\* schema cleanupOldData: DELETE FROM days WHERE day < cutoff
CleanupDays(dayRows, retentionDays) ==
    {d \in dayRows : ~(d.day < CutoffDay(retentionDays))}

\* variant, not the program's: foreign_keys left OFF, a deleted show leaves
\* its bot_notifications_sent rows behind
NoCascade(sentRows, showRows) == sentRows

\* bot_notifications_sent: FOREIGN KEY (show_id) REFERENCES shows(id) ON
\* DELETE CASCADE: the rows that remain when the shows table becomes showRows
Cascade(sentRows, showRows) ==
    {n \in sentRows : \E r \in showRows : r.id = n.showId}

\* the rows of bot_users (telegram_id); nothing deletes a row of this table
BotUsers == {"user 1"}

\* a notification time of the preferences, as written: a number and a suffix
DefaultOffset == <<"4", "h">>

\* the notification_type checkShowNotification uses: `upcoming_show_${literal}`
NotificationType(literal) == <<"upcoming_show", literal>>

\* DatabaseManager.isNotificationSent
IsNotificationSent(sentRows, telegramId, showId, type) ==
    \E n \in sentRows : n.telegramId = telegramId /\ n.showId = showId /\ n.type = type

\* DatabaseManager.markNotificationSent: INSERT ... ON CONFLICT(telegram_id,
\* show_id, notification_type) DO NOTHING; with foreign_keys = ON the insert
\* throws when telegram_id or show_id names no row (ok = FALSE)
MarkNotificationSent(sentRows, showRows, telegramId, showId, type) ==
    IF telegramId \notin BotUsers \/ ~\E r \in showRows : r.id = showId
    THEN [ok |-> FALSE, sent |-> sentRows]
    ELSE IF IsNotificationSent(sentRows, telegramId, showId, type)
    THEN [ok |-> TRUE, sent |-> sentRows]
    ELSE [ok |-> TRUE,
          sent |-> sentRows \cup {[telegramId |-> telegramId, showId |-> showId,
                                   type |-> type]}]

\* no call of a function yet
NoCall == [fn |-> None]

\* no direct call of markNotificationSent yet, or another store call since
NoMark == [called |-> FALSE, showId |-> 0, ok |-> TRUE]

\* what the history variable lastUpsert records of an upsertShows call:
\* whether it returned (ok) or threw; whether it was given rows and added
\* none (repeat); whether its transaction had inserted rows when it was rolled
\* back (undone); whether the batch offered a row whose key was stored with
\* another style (shadowed)
UpsertRecord(batch, rowsBefore, body, res) ==
    [ok |-> res.ok,
     repeat |-> res.ok /\ Len(batch) > 0 /\ res.shows = rowsBefore,
     undone |-> ~res.ok /\ body.shows # rowsBefore,
     shadowed |-> \E i \in 1..Len(batch) : \E r \in rowsBefore :
                     Key(r) = Key(batch[i]) /\ r.style # batch[i].style]

----------------------------------------------------------------------------
(* Queries on the shows table *)

\* the start_time and dj values in use, each in the order of SQLite's TEXT
\* comparison
StartTimes == <<"18:00", "20:00">>
Djs == <<"DJ A", "DJ B">>

Rank(texts, t) == CHOOSE i \in 1..Len(texts) : texts[i] = t

\* variant, not the program's: a range takes precedence over an exact date
WhereRangeFirst(r, stationDomain, date, from, to) ==
    /\ r.stationDomain = stationDomain
    /\ IF from # Absent /\ to # Absent
       THEN r.day >= from[1] /\ r.day <= to[1]
       ELSE IF date # Absent
       THEN r.day = date[1]
       ELSE TRUE

\* variant, not the program's: a bound given alone is applied too
WhereEitherBound(r, stationDomain, date, from, to) ==
    /\ r.stationDomain = stationDomain
    /\ IF date # Absent
       THEN r.day = date[1]
       ELSE /\ from # Absent => r.day >= from[1]
            /\ to # Absent => r.day <= to[1]

\* the WHERE clause getShows builds: "station_domain = ?", then "AND day = ?"
\* if date is given, else "AND day >= ? AND day <= ?" if from and to are
Where(r, stationDomain, date, from, to) ==
    /\ r.stationDomain = stationDomain
    /\ IF date # Absent
       THEN r.day = date[1]
       ELSE IF from # Absent /\ to # Absent
       THEN r.day >= from[1] /\ r.day <= to[1]
       ELSE TRUE

\* variant, not the program's: ORDER BY start_time only
OrderByStartOnly(a, b) == Rank(StartTimes, a.start) < Rank(StartTimes, b.start)

\* "ORDER BY day, start_time": row a sorts before row b
OrderBy(a, b) ==
    \/ a.day < b.day
    \/ a.day = b.day /\ Rank(StartTimes, a.start) < Rank(StartTimes, b.start)

\* The statement names no further sort column, so rows equal in day and
\* start_time come out in the order SQLite's scan feeds them to the sorter:
\* by rowid when it reads the table or one of the idx_shows_* indexes, by the
\* rest of the key when it reads the index of the UNIQUE constraint.
ScanOrders == {"rowid", "key"}

ScansBefore(a, b, scan) ==
    IF scan = "key" /\ a.dj # b.dj
    THEN Rank(Djs, a.dj) < Rank(Djs, b.dj)
    ELSE a.id < b.id

ReturnedBefore(a, b, scan) ==
    OrderBy(a, b) \/ (~OrderBy(b, a) /\ ScansBefore(a, b, scan))

\* the rows of S as the list the SELECT returns
RECURSIVE ResultList(_, _)
ResultList(S, scan) ==
    IF S = {}
    THEN <<>>
    ELSE LET first == CHOOSE r \in S : \A q \in S \ {r} : ReturnedBefore(r, q, scan)
         IN  <<first>> \o ResultList(S \ {first}, scan)

\* DatabaseManager.getShows
GetShows(rows, stationDomain, date, from, to, scan) ==
    ResultList({r \in rows : Where(r, stationDomain, date, from, to)}, scan)

\* no call of getShows yet, or another store call since the last one
NoQuery == [asked |-> FALSE, stationDomain |-> "", date |-> Absent, from |-> Absent,
            to |-> Absent, scan |-> "rowid", result |-> <<>>]

----------------------------------------------------------------------------
(* Store operations as actions (one call each) *)

\* DatabaseManager.upsertShows called with any batch
DbUpsertShows(batch, faultAt) ==
    LET body == UpsertBody(shows, nextId, stations, batch, faultAt)
        res == Transaction([ok |-> TRUE, shows |-> shows, nextId |-> nextId], body)
    IN  /\ body.nextId <= MaxRows + 1
        /\ shows' = res.shows
        /\ nextId' = res.nextId
        /\ lastUpsert' = UpsertRecord(batch, shows, body, res)
        /\ UNCHANGED <<stations, days, sent>>

DbUpsertDay(stationDomain, day) ==
    /\ days' = UpsertDay(days, stationDomain, day)
    /\ UNCHANGED <<stations, shows, nextId, sent, lastUpsert>>

\* DatabaseManager.cleanupOldData: db.prepare(sql) of the two DELETE
\* statements, then run.  prepared = FALSE: the call throws and deletes nothing.
DbCleanupOldData(prepared) ==
    /\ shows' = IF prepared THEN CleanupShows(shows, RetentionDays) ELSE shows
    /\ days' = IF prepared THEN CleanupDays(days, RetentionDays) ELSE days
    /\ sent' = IF prepared
               THEN Cascade(sent, CleanupShows(shows, RetentionDays))
               ELSE sent
    /\ UNCHANGED <<stations, nextId, lastUpsert>>

\* DatabaseManager.getShows returning res
DbGetShows(stationDomain, date, from, to, scan, res) ==
    /\ res = GetShows(shows, stationDomain, date, from, to, scan)
    /\ UNCHANGED storeVars

DbMarkNotificationSent(telegramId, showId, type) ==
    /\ sent' = MarkNotificationSent(sent, shows, telegramId, showId, type).sent
    /\ UNCHANGED <<stations, days, shows, nextId, lastUpsert>>

----------------------------------------------------------------------------
(* The DatabaseManager's initialization and its guard *)

\* the steps of initializeDatabase that can throw: mkdirSync of the data
\* directory, the write test, new Database(dbPath), db.exec(createTables)
InitFaults == {"mkdirSync", "writeFileSync", "new Database", "createTables"}

\* the message of the Error the step throws
InitMessage(fault) ==
    CASE fault = "mkdirSync" -> "EACCES: permission denied, mkdir '/data'"
      [] fault = "writeFileSync" ->
            "Data directory is not writable: /data. Please check permissions. Error: EACCES"
      [] fault = "new Database" -> "SQLITE_CANTOPEN: unable to open database file"
      [] fault = "createTables" -> "SQLITE_NOTADB: file is not a database"

\* DatabaseManager.initializeDatabase, run by the constructor: this.db is set
\* by new Database(dbPath), isInitialized after initializeTables; the catch
\* keeps the error
InitializeDatabase(fault) ==
    IF fault = None
    THEN [isInitialized |-> TRUE, db |-> TRUE, initializationError |-> Absent]
    ELSE [isInitialized |-> FALSE, db |-> fault = "createTables",
          initializationError |-> Some(InitMessage(fault))]

\* variant, not the program's: the guard looks at the handle only
EnsureHandleOnly(d) ==
    IF ~d.db
    THEN [threw |-> TRUE, message |-> "Database not initialized"]
    ELSE [threw |-> FALSE, message |-> ""]

\* DatabaseManager.ensureDatabaseInitialized: throws when the store did not
\* initialize, with the reason when there is one
EnsureDatabaseInitialized(d) ==
    IF ~d.isInitialized \/ ~d.db
    THEN [threw |-> TRUE,
          message |-> IF d.initializationError # Absent
                      THEN "Database not available: " \o d.initializationError[1]
                      ELSE "Database not initialized"]
    ELSE [threw |-> FALSE, message |-> ""]

\* DatabaseManager.healthCheck: false when the store did not initialize or
\* when 'SELECT 1' throws
HealthCheck(d, queryThrows) ==
    IF ~d.isInitialized \/ ~d.db THEN FALSE ELSE ~queryThrows

\* DatabaseManager.getInitializationStatus
GetInitializationStatus(d) ==
    [isInitialized |-> d.isInitialized, error |-> d.initializationError]

\* no call yet
NoOp == [op |-> "none", threw |-> FALSE, message |-> ""]

\* a call of the store that threw message, and one that returned
Threw(op, message) == [op |-> op, threw |-> TRUE, message |-> message]
Returned(op) == [op |-> op, threw |-> FALSE, message |-> ""]

----------------------------------------------------------------------------
(* Inputs of the store contract *)

OldDay == Today - RetentionDays - 1

BaseShow ==
    [day |-> Today, stationDomain |-> ConfigStations[1], dj |-> "DJ A",
     title |-> "Show", start |-> "20:00", end |-> "22:00", style |-> "Trance"]

\* BaseShow; the same key with another style; the same slot on the other
\* source; an old slot
ShowPool ==
    { BaseShow,
      [BaseShow EXCEPT !.style = "House"],
      [BaseShow EXCEPT !.stationDomain = ConfigStations[2]],
      [BaseShow EXCEPT !.day = OldDay] }

SeqsUpTo(S, n) == UNION {[1..k -> S] : k \in 0..n}

Batches == SeqsUpTo(ShowPool, MaxBatch)

StoreDays == {Today, OldDay}

StationRows == {[domain |-> ConfigStations[k], enabled |-> TRUE] :
                    k \in 1..Len(ConfigStations)}

NoUpsert == [ok |-> TRUE, repeat |-> FALSE, undone |-> FALSE, shadowed |-> FALSE]

----------------------------------------------------------------------------
(* Page extraction results (ScrapedShow lists) the upstream site can serve *)

ShowA == [dj |-> "DJ A", title |-> "Show", start |-> "20:00", end |-> "22:00",
          style |-> "Trance"]
ShowB == [ShowA EXCEPT !.dj = "DJ B"]

\* a page with no valid item block, and a page with two
Pages == {<<>>, <<ShowA, ShowB>>}

\* ScrapeResult of scrapeSchedule: it never throws; a failed fetch or parse
\* gives success = false and no shows
ScrapeResults ==
    {[success |-> TRUE, shows |-> p] : p \in Pages}
        \cup {[success |-> FALSE, shows |-> <<>>]}

----------------------------------------------------------------------------
(* Run coordinator: SchedulerService *)

\* SchedulerService.generateDateRange: the days WindowFirst .. of the window
GenerateDateRange == [k \in 1..WindowDays |-> Today + WindowFirst + (k - 1)]

\* what a run knows of the unit it processed last
NoUnit == [success |-> FALSE, shows |-> <<>>, dayWritten |-> FALSE,
           itemsWritten |-> FALSE, saveErr |-> FALSE]

\* a run that is not executing; outcome is how the previous one ended and
\* cleanups the number of calls of db.cleanupOldData it made
IdleRun(outcome) ==
    [pc |-> "idle", sts |-> <<>>, dates |-> <<>>, si |-> 0, di |-> 0,
     unit |-> NoUnit, outcome |-> outcome, cleanups |-> 0]

\* variant, not the program's: the dates are taken from the end of the list
FetchingRunLastFirst(sts, dates, si, di) ==
    [pc |-> "fetch", sts |-> sts, dates |-> dates, si |-> si, di |-> Len(dates) + 1 - di,
     unit |-> NoUnit, outcome |-> None, cleanups |-> 0]

\* a run awaiting scrapeStation(sts[si], dates[di])
FetchingRun(sts, dates, si, di) ==
    [pc |-> "fetch", sts |-> sts, dates |-> dates, si |-> si, di |-> di,
     unit |-> NoUnit, outcome |-> None, cleanups |-> 0]

Active(run) == run.pc # "idle"

\* DatabaseManager.getStation: the row of the domain (domain is the primary
\* key), as a set; the empty set is null
GetStation(stationsTbl, domain) == {s \in stationsTbl : s.domain = domain}

\* "if (!station || !station.enabled) continue" of runScheduledScrape
SkipScheduled(station) == station = {} \/ \E s \in station : ~s.enabled

\* "if (!stationData) continue" of runManualScrape
SkipManual(station) == station = {}

\* the first station at or after index i that the loop does not skip
RECURSIVE NextStation(_, _, _, _)
NextStation(stationsTbl, sts, i, scheduled) ==
    IF i > Len(sts)
    THEN i
    ELSE LET station == GetStation(stationsTbl, sts[i])
         IN  IF (IF scheduled THEN SkipScheduled(station) ELSE SkipManual(station))
             THEN NextStation(stationsTbl, sts, i + 1, scheduled)
             ELSE i

\* SchedulerService.saveShows: the Show records of the unit
ShowRecords(stationDomain, date, scraped) ==
    [k \in 1..Len(scraped) |->
        [day |-> date, stationDomain |-> stationDomain, dj |-> scraped[k].dj,
         title |-> scraped[k].title, start |-> scraped[k].start,
         end |-> scraped[k].end, style |-> scraped[k].style]]

\* "if (result.success && result.shows.length > 0)" guarding saveShows
ShouldSave(result) == result.success /\ Len(result.shows) > 0

\* the try block of one unit after scrapeStation returned: saveShows is
\* "await db.upsertDay(...)" then "await db.upsertShows(...)"; an exception of
\* either is caught by the unit's catch.  dayFault: upsertDay throws;
\* faultAt: see TransactionBody.
\* Gives [days, shows, nextId, unit].
SaveUnit(run, result, dayFault, faultAt) ==
    LET stationDomain == run.sts[run.si]
        date == run.dates[run.di]
        kept == [days |-> days, shows |-> shows, nextId |-> nextId,
                 unit |-> [success |-> result.success, shows |-> result.shows,
                           dayWritten |-> FALSE, itemsWritten |-> FALSE,
                           saveErr |-> FALSE]]
        batch == ShowRecords(stationDomain, date, result.shows)
        res == UpsertShows(shows, nextId, stations, batch, faultAt)
    IN  IF ~ShouldSave(result)
        THEN kept
        ELSE IF dayFault
        THEN [kept EXCEPT !.unit.saveErr = TRUE]
        ELSE [days |-> UpsertDay(days, stationDomain, date),
              shows |-> res.shows,
              nextId |-> res.nextId,
              unit |-> [success |-> result.success, shows |-> result.shows,
                        dayWritten |-> TRUE, itemsWritten |-> res.ok,
                        saveErr |-> ~res.ok]]

\* variant, not the program's: the unit's try without its catch, so that a
\* failed unit ends the run
AbortOnFailure(run, saved) ==
    IF saved.unit.success /\ ~saved.unit.saveErr
    THEN [run EXCEPT !.pc = "delay", !.unit = saved.unit]
    ELSE [pc |-> "idle", sts |-> <<>>, dates |-> <<>>, si |-> 0, di |-> 0,
          unit |-> saved.unit, outcome |-> "failed", cleanups |-> 0]

\* variant, not the program's: a unit whose fetch failed is fetched again
\* after the delay
FetchDoneRetry(run, saved) ==
    IF saved.unit.success
    THEN [run EXCEPT !.pc = "delay", !.unit = saved.unit]
    ELSE [run EXCEPT !.pc = "delay", !.unit = saved.unit, !.di = run.di - 1]

\* the scrape of a unit returned: the unit is saved and the run sleeps
FetchDone(run, saved) ==
    [run EXCEPT !.pc = "delay", !.unit = saved.unit]

\* variant, not the program's: the flag reset at the end of the try block
\* instead of in "finally"
ResetInTry(outcome) == outcome = "failed"

\* the "finally" of runScheduledScrape
Finally(outcome) == FALSE

\* variant, not the program's: runScheduledScrape without its guard
NoGuard(flag) == FALSE

\* the guard at the head of runScheduledScrape: "if (this.isRunning) return"
AlreadyRunning(flag) == flag

\* the cron callback's own guard: "if (this.isRunning) { warn; return }"
CronSkips(flag) == flag

OuterFaults == {None, "getStation", "upsertStation", "cleanupOldData"}

\* runScheduledScrape from the head of the station loop at index i up to the
\* next await of a fetch, or to the end of the run (cleanup, catch, finally)
SchedFrom(sts, dates, i, fault) ==
    LET j == NextStation(stations, sts, i, TRUE)
        ends(outcome) == /\ sched' = IdleRun(outcome)
                         /\ isRunning' = Finally(outcome)
        cleaned(outcome) == /\ sched' = [IdleRun(outcome) EXCEPT !.cleanups = 1]
                            /\ isRunning' = Finally(outcome)
    IN  IF i <= Len(sts) /\ fault = "getStation"
        THEN ends("failed") /\ UNCHANGED <<days, shows, sent>>
        ELSE IF j <= Len(sts)
        THEN /\ sched' = FetchingRun(sts, dates, j, 1)
             /\ isRunning' = TRUE
             /\ UNCHANGED <<days, shows, sent>>
        ELSE IF fault = "cleanupOldData"
        THEN cleaned("failed") /\ UNCHANGED <<days, shows, sent>>
        ELSE /\ cleaned("completed")
             /\ shows' = CleanupShows(shows, RetentionDays)
             /\ days' = CleanupDays(days, RetentionDays)
             /\ sent' = Cascade(sent, CleanupShows(shows, RetentionDays))

\* SchedulerService.runScheduledScrape, up to its first fetch
RunScheduledScrape(fault) ==
    IF AlreadyRunning(isRunning)
    THEN UNCHANGED <<isRunning, sched, schedStarted, days, shows, sent>>
    ELSE /\ schedStarted' = schedStarted + 1
         /\ SchedFrom(ConfigStations, GenerateDateRange, 1, fault)

\* SchedulerService.start: schedules the cron job and runs the initial scrape
Start(fault) ==
    /\ ~cronJob
    /\ isRunning \/ idleTriggers < MaxTriggers
    /\ cronJob' = TRUE
    /\ idleTriggers' = IF isRunning THEN idleTriggers ELSE idleTriggers + 1
    /\ dropped' = (dropped \/ isRunning)
    /\ RunScheduledScrape(fault)
    /\ UNCHANGED <<stations, nextId, lastUpsert, auxVars, manual, reply>>

\* SchedulerService.stop
Stop ==
    /\ cronJob
    /\ cronJob' = FALSE
    /\ UNCHANGED <<storeVars, auxVars, isRunning, sched, manual, schedStarted, idleTriggers,
                   dropped, reply>>

\* the callback of cron.schedule(config.cronSchedule, ...)
CronTick(fault) ==
    /\ cronJob
    /\ isRunning \/ idleTriggers < MaxTriggers
    /\ idleTriggers' = IF isRunning THEN idleTriggers ELSE idleTriggers + 1
    /\ dropped' = (dropped \/ isRunning)
    /\ IF CronSkips(isRunning)
       THEN UNCHANGED <<isRunning, sched, schedStarted, days, shows, sent>>
       ELSE RunScheduledScrape(fault)
    /\ UNCHANGED <<stations, nextId, lastUpsert, auxVars, cronJob, manual, reply>>

\* the scheduled run's "await scrapeStation" returns; the unit is saved
SchedFetchDone(result, dayFault, faultAt) ==
    /\ sched.pc = "fetch"
    /\ LET saved == SaveUnit(sched, result, dayFault, faultAt)
       IN  /\ sched' = FetchDone(sched, saved)
           /\ days' = saved.days
           /\ shows' = saved.shows
           /\ nextId' = saved.nextId
    /\ UNCHANGED <<stations, sent, lastUpsert, auxVars, isRunning, cronJob, manual,
                   schedStarted, idleTriggers, dropped, reply>>

\* the scheduled run's 2 s delay elapsed: the next date, or the station's
\* "await db.upsertStation" and the next station, or the end of the run
SchedDelayDone(fault) ==
    /\ sched.pc = "delay"
    /\ IF sched.di < Len(sched.dates)
       THEN /\ sched' = FetchingRun(sched.sts, sched.dates, sched.si, sched.di + 1)
            /\ UNCHANGED <<isRunning, days, shows, sent>>
       ELSE IF fault = "upsertStation"
       THEN /\ sched' = IdleRun("failed")
            /\ isRunning' = Finally("failed")
            /\ UNCHANGED <<days, shows, sent>>
       ELSE SchedFrom(sched.sts, sched.dates, sched.si + 1, fault)
    /\ UNCHANGED <<stations, nextId, lastUpsert, auxVars, cronJob, manual,
                   schedStarted, idleTriggers, dropped, reply>>

----------------------------------------------------------------------------
(* On-demand runs: POST /api/scrape and SchedulerService.runManualScrape *)

\* bodies of POST /api/scrape: station is a domain or absent
RequestStations == {Absent, Some(ConfigStations[1]), Some(UnknownStation)}

\* the text of a date in a request body, character by character: "9" stands
\* for a digit, "-" for a hyphen and "." for any other character
IsoText == <<"9", "9", "9", "9", "-", "9", "9", "-", "9", "9">>
DottedText == <<"9", "9", ".", "9", "9", ".", "9", "9", "9", "9">>
ShortText == <<"9", "9", "9", "9", "-", "9", "-", "9">>

\* a date of a request body: its text and the day the text names
IsoDate(day) == [text |-> IsoText, day |-> day]
MalformedDates == {[text |-> DottedText, day |-> Today], [text |-> ShortText, day |-> Today]}

\* bodies of POST /api/scrape: dates is a list of YYYY-MM-DD days or absent
RequestDates ==
    {Absent, Some(<<IsoDate(Today + WindowFirst)>>)}
    \cup {Some(<<IsoDate(Today + WindowFirst), bad>>) : bad \in MalformedDates}

\* the test of /^\d{4}-\d{2}-\d{2}$/ on the text of a date
MatchesIsoDate(text) ==
    /\ Len(text) = 10
    /\ \A i \in 1..10 : text[i] = IF i \in {5, 8} THEN "-" ELSE "9"

\* the validation of POST /api/scrape skipped: every body is accepted
NoValidation(stationRows, station, dates) == 200

\* the validation of POST /api/scrape: the status of the reply
ValidateScrape(stationRows, station, dates) ==
    IF station # Absent /\ GetStation(stationRows, station[1]) = {}
    THEN 404
    ELSE IF dates # Absent /\ \E k \in 1..Len(dates[1]) : ~MatchesIsoDate(dates[1][k].text)
    THEN 400
    ELSE 200

\* runManualScrape from the head of its station loop at index i up to the
\* next await of a fetch, or to its end; an exception of getStation rejects
\* the promise (the route's .catch logs it)
ManualFrom(sts, dates, i, fault) ==
    LET j == NextStation(stations, sts, i, FALSE)
    IN  IF i <= Len(sts) /\ fault = "getStation"
        THEN IdleRun("failed")
        ELSE IF j <= Len(sts)
        THEN FetchingRun(sts, dates, j, 1)
        ELSE IdleRun("completed")

\* SchedulerService.runManualScrape, up to its first fetch
RunManualScrape(station, dates, fault) ==
    LET targetStations == IF station # Absent THEN <<station[1]>> ELSE ConfigStations
        targetDates == IF dates # Absent
                       THEN [k \in 1..Len(dates[1]) |-> dates[1][k].day]
                       ELSE GenerateDateRange
    IN  ManualFrom(targetStations, targetDates, 1, fault)

\* the handler of POST /api/scrape: validation, then the run in the background
PostScrape(m, station, dates, fault) ==
    /\ ~Active(manual[m])
    /\ reply' = ValidateScrape(stations, station, dates)
    /\ IF reply' # 200
       THEN UNCHANGED manual
       ELSE manual' = [manual EXCEPT ![m] = RunManualScrape(station, dates, fault)]
    /\ UNCHANGED <<storeVars, auxVars, isRunning, cronJob, sched, schedStarted, idleTriggers,
                   dropped>>

\* an on-demand run's "await scrapeStation" returns; the unit is saved
ManualFetchDone(m, result, dayFault, faultAt) ==
    /\ manual[m].pc = "fetch"
    /\ LET saved == SaveUnit(manual[m], result, dayFault, faultAt)
       IN  /\ manual' = [manual EXCEPT
                            ![m] = FetchDone(manual[m], saved)]
           /\ days' = saved.days
           /\ shows' = saved.shows
           /\ nextId' = saved.nextId
    /\ UNCHANGED <<stations, sent, lastUpsert, auxVars, isRunning, cronJob, sched,
                   schedStarted, idleTriggers, dropped, reply>>

\* an on-demand run's 1 s delay elapsed: the next date or the next station
ManualDelayDone(m, fault) ==
    /\ manual[m].pc = "delay"
    /\ LET run == manual[m]
       IN  manual' = [manual EXCEPT ![m] =
               IF run.di < Len(run.dates)
               THEN FetchingRun(run.sts, run.dates, run.si, run.di + 1)
               ELSE ManualFrom(run.sts, run.dates, run.si + 1, fault)]
    /\ UNCHANGED <<storeVars, auxVars, isRunning, cronJob, sched, schedStarted, idleTriggers,
                   dropped, reply>>

\* SchedulerService.getStatus().isRunning
GetStatus == isRunning

----------------------------------------------------------------------------
(* Notification service: NotificationService over the store *)

\* "if (timeDiff >= 0 && timeDiff <= 15 * 60 * 1000)", in minutes
WindowMinutes == 15
\* the cron expression '*/15 * * * *'
CronMinutes == 15
MinutesPerHour == 60
HoursPerDay == 24

\* the notificationTimes of the user's preferences, as written
NotificationTimes ==
    <<DefaultOffset, <<"2", "2", "5", "m">>, <<"5", "0">>, <<"0">>>>

\* the user's favourite DJ
FavoriteDJ == [djName |-> "DJ A", stationDomain |-> ConfigStations[1]]

\* the hours and minutes "HH:MM" splits into, for the start times in use
SplitTime(time) ==
    CASE time = "18:00" -> <<18, 0>>
      [] time = "20:00" -> <<20, 0>>

\* NotificationService.parseShowTime: the instant of a show's start
ParseShowTime(day, time) ==
    day * HoursPerDay * MinutesPerHour + SplitTime(time)[1] * MinutesPerHour
        + SplitTime(time)[2]

\* the date of an instant ("today" of checkUserNotifications)
DateOf(instant) == instant \div (HoursPerDay * MinutesPerHour)

\* A name as the sequence of its characters.  toLowerCase on the letters in
\* use:
ToLower(ch) ==
    CASE ch = "A" -> "a" [] ch = "B" -> "b" [] ch = "C" -> "c" [] ch = "D" -> "d"
      [] ch = "H" -> "h" [] ch = "J" -> "j" [] ch = "M" -> "m" [] ch = "S" -> "s"
      [] OTHER -> ch

ToLowerCase(str) == [i \in 1..Len(str) |-> ToLower(str[i])]

\* String.prototype.includes
Includes(str, sub) ==
    \E i \in 0..(Len(str) - Len(sub)) : SubSeq(str, i + 1, i + Len(sub)) = sub

\* the characters \s matches, among those in use
IsSpace(ch) == ch = " "

\* replace(/^dj\s+/, ''): "dj" at the very start and all the whitespace after it
RECURSIVE DropSpaces(_)
DropSpaces(str) ==
    IF str # <<>> /\ IsSpace(Head(str)) THEN DropSpaces(Tail(str)) ELSE str

StripDjPrefix(str) ==
    IF Len(str) >= 3 /\ str[1] = "d" /\ str[2] = "j" /\ IsSpace(str[3])
    THEN DropSpaces(SubSeq(str, 3, Len(str)))
    ELSE str

\* replace(/\s+/g, ' '): every run of whitespace becomes one blank
RECURSIVE CollapseSpaces(_)
CollapseSpaces(str) ==
    IF str = <<>>
    THEN <<>>
    ELSE IF IsSpace(Head(str))
    THEN <<" ">> \o CollapseSpaces(DropSpaces(str))
    ELSE <<Head(str)>> \o CollapseSpaces(Tail(str))

\* trim
RECURSIVE DropTrailingSpaces(_)
DropTrailingSpaces(str) ==
    IF str # <<>> /\ IsSpace(str[Len(str)])
    THEN DropTrailingSpaces(SubSeq(str, 1, Len(str) - 1))
    ELSE str

Trim(str) == DropTrailingSpaces(DropSpaces(str))

\* the decimal digits and their values
Digits == <<"0", "1", "2", "3", "4", "5", "6", "7", "8", "9">>

IsDigit(ch) == \E i \in 1..Len(Digits) : Digits[i] = ch

DigitValue(ch) == (CHOOSE i \in 1..Len(Digits) : Digits[i] = ch) - 1

\* the longest prefix of digits
RECURSIVE DigitsPrefix(_)
DigitsPrefix(str) ==
    IF str # <<>> /\ IsDigit(Head(str))
    THEN <<Head(str)>> \o DigitsPrefix(Tail(str))
    ELSE <<>>

\* the number a sequence of digits denotes
RECURSIVE DigitsValue(_)
DigitsValue(digits) ==
    IF digits = <<>>
    THEN 0
    ELSE 10 * DigitsValue(SubSeq(digits, 1, Len(digits) - 1))
            + DigitValue(digits[Len(digits)])

RECURSIVE PowerOfTen(_)
PowerOfTen(k) == IF k = 0 THEN 1 ELSE 10 * PowerOfTen(k - 1)

\* a number as the fraction num / den, or NaN
NaN == [nan |-> TRUE]
Number(num, den) == [nan |-> FALSE, num |-> num, den |-> den]

\* variant, not the program's: the digits after the point are ignored
ParseWhole(str) ==
    LET whole == DigitsPrefix(DropSpaces(str))
    IN  IF whole = <<>> THEN NaN ELSE Number(DigitsValue(whole), 1)

\* parseFloat on unsigned decimal text: leading whitespace is skipped, the
\* longest prefix "digits[.digits]" or ".digits" is the number, whatever
\* follows is ignored, and without any digit the result is NaN
ParseFloat(str) ==
    LET text == DropSpaces(str)
        whole == DigitsPrefix(text)
        rest == SubSeq(text, Len(whole) + 1, Len(text))
        fraction == IF rest # <<>> /\ Head(rest) = "."
                    THEN DigitsPrefix(Tail(rest))
                    ELSE <<>>
    IN  IF whole = <<>> /\ fraction = <<>>
        THEN NaN
        ELSE Number(DigitsValue(whole \o fraction), PowerOfTen(Len(fraction)))

\* Math.round(x * factor) of a number that is not negative: the nearest
\* integer, a half rounded up; NaN stays NaN
RoundTimes(x, factor) ==
    IF x.nan
    THEN NaN
    ELSE Number((2 * x.num * factor + x.den) \div (2 * x.den), 1)

EndsWith(str, ch) == str # <<>> /\ str[Len(str)] = ch

\* slice(0, -1)
DropLast(str) == SubSeq(str, 1, Len(str) - 1)

\* parseNotificationTime: the minutes a literal stands for, NaN where
\* parseFloat finds no number before a unit, or an exception
ParseNotificationTime(timeStr) ==
    LET normalized == Trim(ToLowerCase(timeStr))
        ret(x) == [threw |-> FALSE, value |-> x]
    IN  IF EndsWith(normalized, "d")
        THEN ret(RoundTimes(ParseFloat(DropLast(normalized)), HoursPerDay * MinutesPerHour))
        ELSE IF EndsWith(normalized, "h")
        THEN ret(RoundTimes(ParseFloat(DropLast(normalized)), MinutesPerHour))
        ELSE IF EndsWith(normalized, "m")
        THEN ret(RoundTimes(ParseFloat(DropLast(normalized)), 1))
        ELSE IF ~ParseFloat(normalized).nan
        THEN ret(RoundTimes(ParseFloat(normalized), MinutesPerHour))
        ELSE [threw |-> TRUE]

\* split(sep)
RECURSIVE Split(_, _)
Split(str, sep) ==
    IF \A i \in 1..Len(str) : str[i] # sep
    THEN <<str>>
    ELSE LET at == CHOOSE i \in 1..Len(str) :
                       str[i] = sep /\ \A j \in 1..(i - 1) : str[j] # sep
         IN  <<SubSeq(str, 1, at - 1)>> \o Split(SubSeq(str, at + 1, Len(str)), sep)

\* join(sep)
RECURSIVE Join(_, _)
Join(list, sep) ==
    IF list = <<>> THEN <<>>
    ELSE IF Len(list) = 1 THEN list[1]
    ELSE list[1] \o sep \o Join(Tail(list), sep)

\* map(t => t.trim())
TrimAll(list) == [i \in 1..Len(list) |-> Trim(list[i])]

\* parseNotificationTimes: the results of the literals between the commas
\* that are not empty; the exception of one is the exception of the call
ParseNotificationTimes(timeStr) ==
    LET times == SelectSeq(TrimAll(Split(timeStr, ",")), LAMBDA t : t # <<>>)
        results == [i \in 1..Len(times) |-> ParseNotificationTime(times[i])]
    IN  IF \E i \in 1..Len(results) : results[i].threw
        THEN [threw |-> TRUE]
        ELSE [threw |-> FALSE, value |-> [i \in 1..Len(results) |-> results[i].value]]

\* isValidNotificationTimes
IsValidNotificationTimes(timeStr) == ~ParseNotificationTimes(timeStr).threw

\* "parseNotificationTimes(notificationTimeStr)[0]" of checkShowNotification,
\* for the literals of the preferences in use (each parses to a number)
NotificationMinutes(literal) == ParseNotificationTime(literal).value.num

\* variant, not the program's: the "DJ " prefix is kept
NormalizeKeepPrefix(name) == Trim(CollapseSpaces(ToLowerCase(name)))

\* NotificationService.normalizeDJName
NormalizeDJName(name) == Trim(CollapseSpaces(StripDjPrefix(ToLowerCase(name))))

\* the predicate of filterShowsForDJ
FilterMatches(showDj, djName) ==
    LET showDJ == ToLowerCase(showDj)
        favoriteDJ == ToLowerCase(djName)
    IN  \/ Includes(showDJ, favoriteDJ)
        \/ Includes(favoriteDJ, showDJ)
        \/ NormalizeDJName(showDJ) = NormalizeDJName(favoriteDJ)

\* the characters of the DJ names of the stored shows
Chars(name) ==
    CASE name = "DJ A" -> <<"D", "J", " ", "A">>
      [] name = "DJ B" -> <<"D", "J", " ", "B">>

\* filterShowsForDJ on a stored show and a favourite
DjMatches(showDj, djName) == FilterMatches(Chars(showDj), Chars(djName))

\* the shows checkUserNotifications gets for the favourite DJ: getShows from
\* today to tomorrow, filtered by filterShowsForDJ
DjShows(showRows, instant, scan) ==
    SelectSeq(GetShows(showRows, FavoriteDJ.stationDomain, Absent,
                       Some(DateOf(instant)), Some(DateOf(instant) + 1), scan),
              LAMBDA r : DjMatches(r.dj, FavoriteDJ.djName))

\* timeDiff of checkShowNotification: notification time minus now
TimeDiff(show, literal, instant) ==
    (ParseShowTime(show.day, show.start) - NotificationMinutes(literal)) - instant

\* variant, not the program's: the window opens at the notification time
InWindowAfter(timeDiff) == timeDiff <= 0 /\ timeDiff > -WindowMinutes

\* "timeDiff >= 0 && timeDiff <= 15 * 60 * 1000"
InWindow(timeDiff) == timeDiff >= 0 /\ timeDiff <= WindowMinutes

\* variant, not the program's: the check of isNotificationSent left out
NeverSent(sentRows, telegramId, showId, type) == FALSE

\* "alreadySent" of checkShowNotification
AlreadySent(sentRows, telegramId, showId, type) ==
    IsNotificationSent(sentRows, telegramId, showId, type)

\* the service with no pass executing
\* outcome, skipped and overlapped are history: how the last pass ended, a
\* trigger was skipped, a pass began while another one was at its await
IdleService(cron) ==
    [cronJob |-> cron, isRunning |-> FALSE, pc |-> "idle", user |-> None,
     djShows |-> <<>>, s |-> 0, k |-> 0,
     outcome |-> None, skipped |-> FALSE, overlapped |-> FALSE]

\* The loops of checkUserNotifications and checkShowNotification for one
\* user from show s of djShows and literal k of the notification times, up
\* to the next await of sendMessage (pc = "send") or to their end; seen
\* collects the pairs evaluated on the way.
RECURSIVE CheckFrom(_, _, _, _, _, _, _)
CheckFrom(user, djShows, s, k, sentRows, instant, seen) ==
    IF s > Len(djShows)
    THEN [pc |-> "idle", user |-> None, djShows |-> <<>>, s |-> 0, k |-> 0,
          polled |-> seen]
    ELSE IF k > Len(NotificationTimes)
    THEN CheckFrom(user, djShows, s + 1, 1, sentRows, instant, seen)
    ELSE LET literal == NotificationTimes[k]
             show == djShows[s]
             evaluated == seen \cup {<<show.id, literal>>}
         IN  IF AlreadySent(sentRows, user, show.id, NotificationType(literal))
             THEN CheckFrom(user, djShows, s, k + 1, sentRows, instant, evaluated)
             ELSE IF InWindow(TimeDiff(show, literal, instant))
             THEN [pc |-> "send", user |-> user, djShows |-> djShows, s |-> s,
                   k |-> k, polled |-> evaluated]
             ELSE CheckFrom(user, djShows, s, k + 1, sentRows, instant, evaluated)

\* the service record after the loops stopped at c; "finally" resets isRunning
\* when the pass has ended
Resume(service, c) ==
    [cronJob |-> service.cronJob, isRunning |-> (c.pc = "send"), pc |-> c.pc,
     user |-> c.user, djShows |-> c.djShows, s |-> c.s, k |-> c.k,
     outcome |-> IF c.pc = "send" THEN None ELSE "completed",
     skipped |-> service.skipped, overlapped |-> service.overlapped]

\* variant, not the program's: the guards on isRunning left out
NeverRunning(service) == FALSE

\* "if (this.isRunning) ... return" of the cron callback and of
\* checkAndSendNotifications
PassRunning(service) == service.isRunning

\* checkAndSendNotifications up to its first await of sendMessage: the one
\* active user has preferences and one favourite DJ
\* fault: getActiveBotUsers throws; the outer catch logs it and "finally"
\* resets isRunning
CheckAndSendNotificationsAt(service, scan, instant, fault) ==
    IF PassRunning(service)
    THEN /\ notif' = [service EXCEPT !.skipped = TRUE]
         /\ polled' = {}
    ELSE LET user == CHOOSE u \in BotUsers : TRUE
             c == CheckFrom(user, DjShows(shows, instant, scan), 1, 1, sent, instant, {})
             began == [service EXCEPT !.overlapped = @ \/ service.pc = "send"]
         IN  IF fault
             THEN /\ notif' = [IdleService(began.cronJob) EXCEPT
                                  !.outcome = "failed", !.skipped = began.skipped,
                                  !.overlapped = began.overlapped]
                  /\ polled' = {}
             ELSE /\ notif' = Resume(began, c)
                  /\ polled' = c.polled

CheckAndSendNotifications(service, scan, fault) ==
    CheckAndSendNotificationsAt(service, scan, clock, fault)

\* NotificationService.start
NotifyStart(scan, fault) ==
    /\ ~notif.cronJob
    /\ CheckAndSendNotifications([notif EXCEPT !.cronJob = TRUE], scan, fault)
    /\ UNCHANGED <<storeVars, clock, dispatched, duplicated>>

\* NotificationService.stop
NotifyStop ==
    /\ notif.cronJob
    /\ notif' = [notif EXCEPT !.cronJob = FALSE]
    /\ polled' = {}
    /\ UNCHANGED <<storeVars, clock, dispatched, duplicated>>

\* the callback of cron.schedule('*/15 * * * *', ...)
NotifyCronTick(scan, fault) ==
    /\ notif.cronJob
    /\ clock % CronMinutes = 0
    /\ CheckAndSendNotifications(notif, scan, fault)
    /\ UNCHANGED <<storeVars, clock, dispatched, duplicated>>

\* "await this.telegramBot.sendNotification" returns (sendNotification
\* swallows a failure of sendMessage); markNotificationSent, then the loops
\* go on with the next literal
NotifySendDone(delivered) ==
    /\ notif.pc = "send"
    /\ LET show == notif.djShows[notif.s]
           literal == NotificationTimes[notif.k]
           pair == <<show.id, literal>>
           mark == MarkNotificationSent(sent, shows, notif.user, show.id,
                                        NotificationType(literal))
           c == CheckFrom(notif.user, notif.djShows, notif.s, notif.k + 1,
                          mark.sent, clock, {})
       IN  /\ sent' = mark.sent
           /\ dispatched' = IF delivered THEN dispatched \cup {pair} ELSE dispatched
           /\ duplicated' = IF delivered /\ pair \in dispatched
                            THEN duplicated \cup {pair}
                            ELSE duplicated
           /\ notif' = Resume(notif, c)
           /\ polled' = c.polled
    /\ UNCHANGED <<stations, days, shows, nextId, lastUpsert, clock>>

\* the instants the clock takes: around the two ends of the window before
\* the notification time of the 4h literal (16:00) and a quarter later
FirstInstant == 944
Instants == {944, 945, 946, 959, 960, 961, 974, 975, 976}

\* time passes
ClockTick(instant) ==
    /\ instant > clock
    /\ clock' = instant
    /\ polled' = {}
    /\ UNCHANGED <<storeVars, notif, dispatched, duplicated>>

----------------------------------------------------------------------------
(* Specifications *)

StoreInit ==
    /\ stations = StationRows
    /\ days = {}
    /\ shows = {}
    /\ nextId = 1
    /\ sent = {}
    /\ lastUpsert = NoUpsert

CoordInit ==
    /\ isRunning = FALSE
    /\ cronJob = FALSE
    /\ sched = IdleRun(None)
    /\ manual = [m \in 1..MaxManual |-> IdleRun(None)]
    /\ schedStarted = 0
    /\ idleTriggers = 0
    /\ dropped = FALSE
    /\ reply = 0

AuxInit ==
    /\ lastCleanup = "none"
    /\ lastQuery = NoQuery
    /\ lastMark = NoMark
    /\ lastCall = NoCall
    /\ clock = FirstInstant
    /\ notif = IdleService(FALSE)
    /\ polled = {}
    /\ dispatched = {}
    /\ duplicated = {}
    /\ botUsers = {}
    /\ preferences = {}
    /\ handlers = {}

\* the DatabaseManager opened its file and the server started normally
DatabaseReady ==
    /\ database = InitializeDatabase(None)
    /\ listening = "normal"
    /\ lastOp = NoOp

Init == StoreInit /\ CoordInit /\ AuxInit /\ DatabaseReady

\* the stmt.run of a batch that can throw: none (0) or the k-th
FaultPositions(result) == 0..Len(result.shows)

Next ==
    \/ \E f \in OuterFaults : Start(f)
    \/ Stop
    \/ \E f \in OuterFaults : CronTick(f)
    \/ \E r \in ScrapeResults, df \in BOOLEAN : \E k \in FaultPositions(r) :
          SchedFetchDone(r, df, k)
    \/ \E f \in OuterFaults : SchedDelayDone(f)
    \/ \E m \in 1..MaxManual, s \in RequestStations, d \in RequestDates,
          f \in OuterFaults : PostScrape(m, s, d, f)
    \/ \E m \in 1..MaxManual, r \in ScrapeResults, df \in BOOLEAN :
          \E k \in FaultPositions(r) : ManualFetchDone(m, r, df, k)
    \/ \E m \in 1..MaxManual, f \in OuterFaults : ManualDelayDone(m, f)

Spec == Init /\ [][Next]_vars

\* the event loop completes every pending fetch and timer of the scheduled run
FairSpec ==
    /\ Spec
    /\ WF_vars(\E r \in ScrapeResults, df \in BOOLEAN : \E k \in FaultPositions(r) :
                  SchedFetchDone(r, df, k))
    /\ WF_vars(\E f \in OuterFaults : SchedDelayDone(f))

----------------------------------------------------------------------------
(* Runs over stations an operator has disabled (RunSpec) *)

\* the operator sets stations.enabled of a configured station while no run is
\* going on (the flag is read at the head of the station loop)
SetEnabled(k, flag) ==
    /\ ~Active(sched)
    /\ \A m \in 1..MaxManual : ~Active(manual[m])
    /\ stations' = {IF s.domain = ConfigStations[k] THEN [s EXCEPT !.enabled = flag] ELSE s :
                        s \in stations}
    /\ stations' # stations
    /\ UNCHANGED <<days, shows, nextId, sent, lastUpsert, coordVars, auxVars>>

\* bodies of POST /api/scrape with two dates
RunDates == {Absent, Some(<<IsoDate(Today + WindowFirst), IsoDate(Today)>>)}
RunStations == {Absent, Some(ConfigStations[2])}

\* runs whose store calls do not fail, over any setting of the enabled flags
RunNext ==
    \/ \E k \in 1..Len(ConfigStations), flag \in BOOLEAN : SetEnabled(k, flag)
    \/ Start(None)
    \/ CronTick(None)
    \/ \E r \in ScrapeResults : SchedFetchDone(r, FALSE, 0)
    \/ SchedDelayDone(None)
    \/ \E m \in 1..MaxManual, s \in RunStations, d \in RunDates : PostScrape(m, s, d, None)
    \/ \E m \in 1..MaxManual, r \in ScrapeResults : ManualFetchDone(m, r, FALSE, 0)
    \/ \E m \in 1..MaxManual : ManualDelayDone(m, None)

RunSpec == Init /\ [][RunNext]_vars

StoreNext ==
    \/ \E b \in Batches : \E k \in 0..Len(b) : DbUpsertShows(b, k) /\ UNCHANGED <<coordVars, auxVars>>
    \/ \E d \in StoreDays : DbUpsertDay(ConfigStations[1], d) /\ UNCHANGED <<coordVars, auxVars>>
    \/ \E p \in BOOLEAN : DbCleanupOldData(p) /\ UNCHANGED <<coordVars, auxVars>>

StoreSpec == Init /\ [][StoreNext]_vars

----------------------------------------------------------------------------
(* The store around the retention boundary (RetentionSpec) *)

\* the days next to the cutoff: the last one before it, the cutoff day
\* (today - N) and the first one after it (today - (N - 1))
BoundaryDays ==
    {CutoffDay(RetentionDays) - 1, CutoffDay(RetentionDays),
     CutoffDay(RetentionDays) + 1}

BoundaryShows == {[BaseShow EXCEPT !.day = d] : d \in BoundaryDays}

\* the store's write operations with items and days next to the cutoff;
\* lastCleanup records how a call of cleanupOldData ended
RetentionNext ==
    \/ \E item \in BoundaryShows :
          /\ DbUpsertShows(<<item>>, 0)
          /\ lastCleanup' = "none"
          /\ lastMark' = NoMark
          /\ UNCHANGED retentionFrame
    \/ \E d \in BoundaryDays :
          /\ DbUpsertDay(ConfigStations[1], d)
          /\ lastCleanup' = "none"
          /\ lastMark' = NoMark
          /\ UNCHANGED retentionFrame
    \/ \E p \in BOOLEAN :
          /\ DbCleanupOldData(p)
          /\ lastCleanup' = IF p THEN "returned" ELSE "threw"
          /\ lastMark' = NoMark
          /\ UNCHANGED retentionFrame
    \/ \E u \in BotUsers, id \in 1..(MaxRows + 1) :
          /\ DbMarkNotificationSent(u, id, NotificationType(DefaultOffset))
          /\ lastMark' = [called |-> TRUE, showId |-> id,
                          ok |-> MarkNotificationSent(sent, shows, u, id,
                                     NotificationType(DefaultOffset)).ok]
          /\ lastCleanup' = "none"
          /\ UNCHANGED retentionFrame

RetentionSpec == Init /\ [][RetentionNext]_vars

----------------------------------------------------------------------------
(* The store behind its guard, the health route and the start of the
   process (DbSpec) *)

\* the message of a statement that fails although the store is initialized
BusyMessage == "SQLITE_BUSY: database is locked"

\* start() of the server: when the health check fails the server is built and
\* listens in error mode; otherwise the services are started first.  fault:
\* startServices or listen throws, and the catch of start() exits
StartFaults == {None, "startServices", "listen"}

StartProcess(queryThrows, fault) ==
    /\ listening = "starting"
    /\ listening' =
          IF ~HealthCheck(database, queryThrows)
          THEN IF fault = "listen" THEN "exited: listen" ELSE "error mode"
          ELSE IF fault # None THEN "exited: " \o fault ELSE "normal"
    /\ UNCHANGED <<storeVars, database, lastOp, dbFrame>>

\* a method of the DatabaseManager called by a route or a service of the
\* listening process: the guard first, then the statement (busy: it throws)
StoreCall(op, busy, Statement) ==
    /\ listening \in {"error mode", "normal"}
    /\ LET guard == EnsureDatabaseInitialized(database)
       IN  IF guard.threw
           THEN lastOp' = Threw(op, guard.message) /\ UNCHANGED storeVars
           ELSE IF busy
           THEN lastOp' = Threw(op, BusyMessage) /\ UNCHANGED storeVars
           ELSE lastOp' = Returned(op) /\ Statement
    /\ UNCHANGED <<database, listening, dbFrame>>

\* GET /health: healthCheck and getInitializationStatus
GetHealth(queryThrows) ==
    /\ listening \in {"error mode", "normal"}
    /\ LET dbHealthy == HealthCheck(database, queryThrows)
           dbStatus == GetInitializationStatus(database)
       IN  lastOp' = [op |-> "GET /health", threw |-> FALSE, message |-> "",
                      code |-> IF dbHealthy THEN 200 ELSE 503,
                      status |-> IF dbHealthy THEN "healthy" ELSE "unhealthy",
                      healthy |-> dbHealthy,
                      initialized |-> dbStatus.isInitialized,
                      error |-> dbStatus.error]
    /\ UNCHANGED <<storeVars, database, listening, dbFrame>>

DbNext ==
    \/ \E q \in BOOLEAN, f \in StartFaults : StartProcess(q, f)
    \/ \E q \in BOOLEAN : GetHealth(q)
    \/ \E busy \in BOOLEAN, item \in BoundaryShows :
          StoreCall("upsertShows", busy, DbUpsertShows(<<item>>, 0))
    \/ \E busy \in BOOLEAN, d \in StoreDays :
          StoreCall("upsertDay", busy, DbUpsertDay(ConfigStations[1], d))
    \/ \E busy \in BOOLEAN :
          StoreCall("cleanupOldData", busy, DbCleanupOldData(TRUE))
    \/ \E busy \in BOOLEAN :
          StoreCall("getShows", busy, UNCHANGED storeVars)
    \/ \E busy \in BOOLEAN, u \in BotUsers, id \in 1..MaxRows :
          StoreCall("markNotificationSent", busy,
                    DbMarkNotificationSent(u, id, NotificationType(DefaultOffset)))

\* the process after the constructor of the DatabaseManager ran, whatever
\* became of the initialization, and before start()
DbInit ==
    /\ StoreInit /\ CoordInit /\ AuxInit
    /\ \E f \in InitFaults \cup {None} : database = InitializeDatabase(f)
    /\ listening = "starting"
    /\ lastOp = NoOp

DbSpec == DbInit /\ [][DbNext]_vars

----------------------------------------------------------------------------
(* The store and its queries (QuerySpec) *)

\* BaseShow; another DJ in the same slot; an earlier slot of the same day;
\* the same slot on an old day; the same slot on the other source
QueryShows ==
    { BaseShow,
      [BaseShow EXCEPT !.dj = "DJ B"],
      [BaseShow EXCEPT !.start = "18:00", !.end = "20:00"],
      [BaseShow EXCEPT !.day = OldDay],
      [BaseShow EXCEPT !.stationDomain = ConfigStations[2]] }

\* the optional date and to of a call of getShows, and its optional from
QueryDays == {Absent, Some(OldDay), Some(Today)}
QueryFrom == {Absent, Some(OldDay), Some(Today)}

\* single upserts, and calls of getShows; lastQuery records the last call
\* and is reset by every write
QueryNext ==
    \/ \E item \in QueryShows :
          /\ DbUpsertShows(<<item>>, 0)
          /\ lastQuery' = NoQuery
          /\ UNCHANGED queryFrame
    \/ \E k \in 1..Len(ConfigStations), date \in QueryDays, from \in QueryFrom,
          to \in QueryDays, scan \in ScanOrders :
          LET res == GetShows(shows, ConfigStations[k], date, from, to, scan)
          IN  /\ DbGetShows(ConfigStations[k], date, from, to, scan, res)
              /\ lastQuery' = [asked |-> TRUE, stationDomain |-> ConfigStations[k],
                               date |-> date, from |-> from, to |-> to,
                               scan |-> scan, result |-> res]
              /\ UNCHANGED queryFrame

QuerySpec == Init /\ [][QueryNext]_vars

----------------------------------------------------------------------------
(* The bot's users and their notification preferences (PrefSpec) *)

\* JSON.stringify of a list of strings that hold no quote and no backslash
JsonStringify(list) ==
    <<"[">> \o Join([i \in 1..Len(list) |-> <<"\"">> \o list[i] \o <<"\"">>], <<",">>)
            \o <<"]">>

\* the strings between the quotes of a JSON text
RECURSIVE QuotedStrings(_, _, _)
QuotedStrings(text, inside, current) ==
    IF text = <<>>
    THEN <<>>
    ELSE IF Head(text) = "\""
    THEN IF inside
         THEN <<current>> \o QuotedStrings(Tail(text), FALSE, <<>>)
         ELSE QuotedStrings(Tail(text), TRUE, <<>>)
    ELSE QuotedStrings(Tail(text), inside, IF inside THEN Append(current, Head(text)) ELSE <<>>)

\* JSON.parse of such a text; any other text throws
JsonParse(text) ==
    IF Len(text) >= 2 /\ Head(text) = "[" /\ text[Len(text)] = "]"
    THEN [threw |-> FALSE, value |-> QuotedStrings(text, FALSE, <<>>)]
    ELSE [threw |-> TRUE]

DefaultTimezone == "Europe/Berlin"

\* the preferences a new user gets
DefaultPreferences(telegramId) ==
    [telegramId |-> telegramId, notificationTimes |-> <<<<"2", "h">>>>,
     timezone |-> DefaultTimezone]

\* variant, not the program's: a plain INSERT into a table without a key
InsertBotUserPreferences(rows, users, pref) ==
    IF pref.telegramId \notin users
    THEN [ok |-> FALSE, rows |-> rows]
    ELSE [ok |-> TRUE,
          rows |-> rows \cup {[telegramId |-> pref.telegramId,
                               notification_times |-> JsonStringify(pref.notificationTimes),
                               timezone |-> pref.timezone]}]

\* upsertBotUserPreferences: INSERT ... ON CONFLICT(telegram_id) DO UPDATE; the
\* statement fails when bot_users has no row of the user (FOREIGN KEY)
UpsertBotUserPreferences(rows, users, pref) ==
    LET row == [telegramId |-> pref.telegramId,
                notification_times |-> JsonStringify(pref.notificationTimes),
                timezone |-> pref.timezone]
    IN  IF pref.telegramId \notin users
        THEN [ok |-> FALSE, rows |-> rows]
        ELSE [ok |-> TRUE,
              rows |-> {r \in rows : r.telegramId # pref.telegramId} \cup {row}]

\* getBotUserPreferences
GetBotUserPreferences(rows, telegramId) ==
    IF \A r \in rows : r.telegramId # telegramId
    THEN None
    ELSE LET result == CHOOSE r \in rows : r.telegramId = telegramId
             parsed == JsonParse(result.notification_times)
         IN  [telegramId |-> result.telegramId,
              notificationTimes |-> IF parsed.threw THEN <<<<"2", "h">>>> ELSE parsed.value,
              timezone |-> result.timezone]

\* the pattern /\/notify\s+(\d+)/ on the text behind "/notify": whether it
\* matches, and its first group
NotifyPattern(args) ==
    LET rest == DropSpaces(args)
    IN  [matched |-> rest # args /\ DigitsPrefix(rest) # <<>>,
         group |-> DigitsPrefix(rest)]

\* handleNotifyCommand on the first group of the pattern
HandleNotifyCommand(rows, users, telegramId, group) ==
    LET timeInput == Trim(group)
        notificationTimes == TrimAll(Split(timeInput, ","))
        done == UpsertBotUserPreferences(rows, users,
                    [telegramId |-> telegramId, notificationTimes |-> notificationTimes,
                     timezone |-> DefaultTimezone])
    IN  IF ~IsValidNotificationTimes(timeInput)
        THEN [message |-> "invalid", written |-> <<>>, rows |-> rows]
        ELSE IF done.ok
        THEN [message |-> "updated", written |-> notificationTimes, rows |-> done.rows]
        ELSE [message |-> "error", written |-> <<>>, rows |-> rows]

\* ensureUserExists, after the handler of the command has made its store call
EnsureUserExists(rows, users, telegramId) ==
    IF telegramId \in users
    THEN [users |-> users, rows |-> rows]
    ELSE [users |-> users \cup {telegramId},
          rows |-> UpsertBotUserPreferences(rows, users \cup {telegramId},
                                            DefaultPreferences(telegramId)).rows]

\* the users that write to the bot
TelegramIds == BotUsers \cup {"user 2"}

\* the offset literals users write
OffsetLiterals ==
    {<<"3", "0", "m">>, <<"2">>, <<"x", "h">>}

\* most offsets in one message
MaxOffsets == 2

\* a message "/notify <offsets>" of a user: the handlers of onText and of
\* 'message' both run
OnNotifyMessage(telegramId, supplied) ==
    LET args == <<" ">> \o Join(supplied, <<",", " ">>)
        match == NotifyPattern(args)
        handled == IF ~match.matched
                   THEN [message |-> None, written |-> <<>>, rows |-> preferences]
                   ELSE HandleNotifyCommand(preferences, botUsers, telegramId, match.group)
        ensured == EnsureUserExists(handled.rows, botUsers, telegramId)
    IN  /\ botUsers' = ensured.users
        /\ preferences' = ensured.rows
        /\ lastCall' = [fn |-> "/notify", telegramId |-> telegramId,
                        supplied |-> supplied, matched |-> match.matched,
                        message |-> handled.message, written |-> handled.written,
                        before |-> {r \in preferences : r.telegramId = telegramId}]

PrefNext ==
    \E telegramId \in TelegramIds, supplied \in SeqsUpTo(OffsetLiterals, MaxOffsets) :
        OnNotifyMessage(telegramId, supplied) /\ UNCHANGED <<handlers, botFrame>>

PrefSpec == Init /\ [][PrefNext]_vars

----------------------------------------------------------------------------
(* The handlers of the bot's updates on the event loop (BotSpec) *)

\* most updates in the answer of one poll
MaxUpdates == 2

\* the texts users send: a text no command matches, "/waobot", and "/notify"
\* with one offset
Updates ==
    {[from |-> u, command |-> c, supplied |-> <<>>] :
        u \in TelegramIds, c \in {"text", "/waobot"}}
    \cup {[from |-> u, command |-> "/notify", supplied |-> <<lit>>] :
            u \in TelegramIds, lit \in OffsetLiterals}

\* a call of ensureUserExists suspended at "await db.getBotUser": existing is
\* what the call read; then is what its caller does next
EnsureTask(n, caller, telegramId, users, then) ==
    [id |-> <<n, caller>>, fn |-> "ensureUserExists", pc |-> "upsertBotUser",
     telegramId |-> telegramId, existing |-> telegramId \in users, then |-> then]

\* a call of getUserPreferences that is about to start
PreferencesTask(task) ==
    [task EXCEPT !.fn = "getUserPreferences", !.pc = "getBotUserPreferences",
                 !.then = "done"]

\* processUpdate of the n-th update of a poll, up to the first await of each
\* of its handlers: the listener of 'message' calls ensureUserExists, the
\* callback of /\/waobot/ calls it too, and the callback of the /notify
\* pattern validates and runs its upsertBotUserPreferences.
\* Gives [rows, tasks].
ProcessUpdate(rows, users, update, n) ==
    LET match == NotifyPattern(<<" ">> \o Join(update.supplied, <<",", " ">>))
        listener == EnsureTask(n, "message", update.from, users, "done")
        waobot == EnsureTask(n, "waobot", update.from, users, "getUserPreferences")
    IN  [rows |-> IF update.command = "/notify" /\ match.matched
                  THEN HandleNotifyCommand(rows, users, update.from, match.group).rows
                  ELSE rows,
         tasks |-> IF update.command = "/waobot" THEN {listener, waobot} ELSE {listener}]

\* the updates of one poll, processed one after the other
RECURSIVE ProcessUpdates(_, _, _, _)
ProcessUpdates(rows, users, batch, n) ==
    IF n > Len(batch)
    THEN [rows |-> rows, tasks |-> {}]
    ELSE LET first == ProcessUpdate(rows, users, batch[n], n)
             rest == ProcessUpdates(first.rows, users, batch, n + 1)
         IN  [rows |-> rest.rows, tasks |-> first.tasks \cup rest.tasks]

\* the answer of a poll arrives: no handler of an earlier poll is suspended
\* (their awaits are of store calls, which have completed), and the updates
\* are processed in one turn of the event loop
PollUpdates(batch) ==
    /\ handlers = {}
    /\ LET done == ProcessUpdates(preferences, botUsers, batch, 1)
       IN  /\ preferences' = done.rows
           /\ handlers' = done.tasks
    /\ lastCall' = [fn |-> "processUpdate", batch |-> batch, before |-> preferences]
    /\ UNCHANGED <<botUsers, botFrame>>

\* variant, not the program's: the default preferences are written for a
\* known user too
DefaultAlways(task) == FALSE

\* "if (existingUser) { await db.upsertBotUser(...); return existingUser }"
ReturnsExisting(task) == task.existing

\* what a suspended handler does when it resumes, up to its next await.
\* Gives [users, rows, next], next being the set of the handler suspended again.
ResumeTask(rows, users, task) ==
    LET default == UpsertBotUserPreferences(rows, users \cup {task.telegramId},
                                            DefaultPreferences(task.telegramId)).rows
        return == IF task.then = "getUserPreferences" THEN {PreferencesTask(task)} ELSE {}
    IN  CASE task.pc = "upsertBotUser" ->
                [users |-> users \cup {task.telegramId}, rows |-> rows,
                 next |-> IF ReturnsExisting(task)
                          THEN return
                          ELSE {[task EXCEPT !.pc = "upsertBotUserPreferences"]}]
          [] task.pc = "upsertBotUserPreferences" ->
                [users |-> users, rows |-> default, next |-> return]
          [] task.pc = "getBotUserPreferences" ->
                [users |-> users, rows |-> rows,
                 \* "if (!preferences)": getBotUserPreferences found no row
                 next |-> IF \A r \in rows : r.telegramId # task.telegramId
                          THEN {[task EXCEPT !.pc = "upsertBotUserPreferences"]}
                          ELSE {}]

\* a suspended handler resumes; the order among the suspended handlers is left
\* open
ResumeHandler(task) ==
    /\ task \in handlers
    /\ LET res == ResumeTask(preferences, botUsers, task)
       IN  /\ botUsers' = res.users
           /\ preferences' = res.rows
           /\ handlers' = (handlers \ {task}) \cup res.next
    /\ lastCall' = [fn |-> task.fn, task |-> task, before |-> preferences]
    /\ UNCHANGED botFrame

BotNext ==
    \/ \E batch \in SeqsUpTo(Updates, MaxUpdates) \ {<<>>} : PollUpdates(batch)
    \/ \E task \in handlers : ResumeHandler(task)

BotSpec == Init /\ [][BotNext]_vars

----------------------------------------------------------------------------
(* The extractor: parseShows, parseShowItem and calculateEndTime
   (PageSpec, ItemSpec, EndTimeSpec) *)

\* Number(text) of split(':').map(Number): the empty text is 0, a run of
\* digits its value, any other text NaN
ToNumber(text) ==
    LET trimmed == Trim(text)
    IN  IF trimmed = <<>>
        THEN Number(0, 1)
        ELSE IF DigitsPrefix(trimmed) = trimmed
        THEN Number(DigitsValue(trimmed), 1)
        ELSE NaN

\* toString of a number that is not negative
RECURSIVE DecimalText(_)
DecimalText(n) ==
    IF n < 10 THEN <<Digits[n + 1]>> ELSE Append(DecimalText(n \div 10), Digits[(n % 10) + 1])

NumberText10(x) == IF x.nan THEN <<"N", "a", "N">> ELSE DecimalText(x.num)

\* padStart(2, '0')
PadStart2(text) ==
    IF Len(text) >= 2 THEN text
    ELSE IF Len(text) = 1 THEN <<"0">> \o text
    ELSE <<"0", "0">>

\* variant, not the program's: the hour is not wrapped at midnight
AddHoursNoWrap(x, hours) == IF x.nan THEN NaN ELSE Number(x.num + hours, 1)

\* (hours + 2) % 24
AddHours(x, hours) == IF x.nan THEN NaN ELSE Number((x.num + hours) % HoursPerDay, 1)

\* the hours a show lasts when the page gives no end
DefaultHours == 2

\* calculateEndTime: a text without ':' has no minutes, and reading them throws
CalculateEndTime(startTime) ==
    LET parts == Split(startTime, ":")
    IN  IF Len(parts) < 2
        THEN [threw |-> TRUE]
        ELSE [threw |-> FALSE,
              value |-> PadStart2(NumberText10(AddHours(ToNumber(parts[1]), DefaultHours)))
                            \o <<":">> \o PadStart2(NumberText10(ToNumber(parts[2])))]

\* match(/T(\d{2}:\d{2})/): the first place where the pattern fits
TimeInContent(content) ==
    LET fits(i) == /\ content[i] = "T"
                   /\ IsDigit(content[i + 1]) /\ IsDigit(content[i + 2])
                   /\ content[i + 3] = ":"
                   /\ IsDigit(content[i + 4]) /\ IsDigit(content[i + 5])
        places == {i \in 1..(Len(content) - 5) : fits(i)}
    IN  IF places = {}
        THEN [matched |-> FALSE]
        ELSE LET at == CHOOSE i \in places : \A j \in places : i <= j
             IN  [matched |-> TRUE, group |-> SubSeq(content, at + 1, at + 5)]

\* variant, not the program's: the attribute is read whenever the sibling
\* gives no end time
EndTimeFirstSuccess(block) ==
    LET sibling == IF block.next.present THEN Trim(block.next.text) ELSE <<>>
    IN  IF sibling # <<>>
        THEN sibling
        ELSE IF block.start.content.present /\ block.start.content.text # <<>>
                 /\ TimeInContent(block.start.content.text).matched
        THEN TimeInContent(block.start.content.text).group
        ELSE <<>>

\* the end time parseShowItem finds in the block, empty when it finds none
EndTime(block) ==
    IF block.next.present
    THEN Trim(block.next.text)
    ELSE IF block.start.content.present /\ block.start.content.text # <<>>
             /\ TimeInContent(block.start.content.text).matched
    THEN TimeInContent(block.start.content.text).group
    ELSE <<>>

UnknownStyle == <<"U", "n", "k", "n", "o", "w", "n">>

\* variant, not the program's: a block without a title is accepted
ParseShowItemNoTitleCheck(block) ==
    IF ~block.start.present
    THEN [threw |-> FALSE, show |-> <<>>]
    ELSE LET startTime == Trim(block.start.text)
             endTime == EndTime(block)
             dj == Trim(block.dj)
             title == Trim(block.title)
             style == Trim(block.style)
             end == IF endTime # <<>>
                    THEN [threw |-> FALSE, value |-> endTime]
                    ELSE CalculateEndTime(startTime)
         IN  IF startTime = <<>> \/ dj = <<>>
             THEN [threw |-> FALSE, show |-> <<>>]
             ELSE IF end.threw
             THEN [threw |-> TRUE]
             ELSE [threw |-> FALSE,
                   show |-> <<[dj |-> dj, title |-> title, start |-> startTime,
                               end |-> end.value,
                               style |-> IF style # <<>> THEN style ELSE UnknownStyle]>>]

\* parseShowItem: the show of a block (a list of one), no show (null), or an
\* exception
ParseShowItem(block) ==
    IF ~block.start.present
    THEN [threw |-> FALSE, show |-> <<>>]
    ELSE LET startTime == Trim(block.start.text)
             endTime == EndTime(block)
             dj == Trim(block.dj)
             title == Trim(block.title)
             style == Trim(block.style)
             end == IF endTime # <<>>
                    THEN [threw |-> FALSE, value |-> endTime]
                    ELSE CalculateEndTime(startTime)
         IN  IF startTime = <<>> \/ dj = <<>> \/ title = <<>>
             THEN [threw |-> FALSE, show |-> <<>>]
             ELSE IF end.threw
             THEN [threw |-> TRUE]
             ELSE [threw |-> FALSE,
                   show |-> <<[dj |-> dj, title |-> title, start |-> startTime,
                               end |-> end.value,
                               style |-> IF style # <<>> THEN style ELSE UnknownStyle]>>]

\* parseShows: the shows of the blocks of the page, in page order; a block
\* whose parsing throws is logged and left out
RECURSIVE ParseShows(_)
ParseShows(page) ==
    IF page = <<>>
    THEN <<>>
    ELSE LET parsed == ParseShowItem(Head(page))
         IN  (IF parsed.threw THEN <<>> ELSE parsed.show) \o ParseShows(Tail(page))

\* the parts of the item blocks of a page
Missing == [present |-> FALSE, text |-> <<>>]
Present(text) == [present |-> TRUE, text |-> text]

StartDate(text, content) == [present |-> TRUE, text |-> text, content |-> content]
NoStartDate == [present |-> FALSE, text |-> <<>>, content |-> Missing]

ItemBlock(start, next, dj, title, style) ==
    [start |-> start, next |-> next, dj |-> dj, title |-> title, style |-> style]

StartTexts ==
    {<<>>, <<" ", "2", "2", ":", "0", "0", " ">>, <<"2", "3", ":", "3", "0">>}

ContentTexts ==
    {Missing, Present(<<"1", "5", "T", "2", "1", ":", "0", "0", ":", "0", "0">>),
     Present(<<"T", "x">>)}

NextTexts == {Missing, Present(<<" ">>), Present(<<"0", "0", ":", "0", "0", " ">>)}

StartDates == {NoStartDate} \cup {StartDate(t, c) : t \in StartTexts, c \in ContentTexts}

\* the blocks parseShowItem is called with
ItemBlocks ==
    {ItemBlock(start, next, dj, title, style) :
        start \in StartDates, next \in NextTexts,
        dj \in {<<>>, <<"A", " ">>}, title \in {<<>>, <<"T">>},
        style \in {<<>>, <<"S">>}}

ItemNext ==
    /\ lastCall = NoCall
    /\ \E block \in ItemBlocks :
        /\ lastCall' = [fn |-> "parseShowItem", block |-> block,
                        result |-> ParseShowItem(block)]
        /\ UNCHANGED callFrame

ItemSpec == Init /\ [][ItemNext]_vars

\* the blocks of the pages: two well-formed ones, one without a title, one
\* without a start time field, and one whose start time has no ':' and that
\* names no end time
GoodBlock ==
    ItemBlock(StartDate(<<"2", "2", ":", "0", "0">>, Missing),
              Present(<<"0", "0", ":", "0", "0">>), <<"A">>, <<"T">>, <<"S">>)
OtherBlock ==
    ItemBlock(StartDate(<<"2", "3", ":", "3", "0">>, Missing), Missing,
              <<" ", "B">>, <<"T">>, <<>>)
NoTitleBlock == [GoodBlock EXCEPT !.title = <<" ">>]
NoStartBlock == [GoodBlock EXCEPT !.start = NoStartDate]
UnparsableBlock == [OtherBlock EXCEPT !.start.text = <<"2", "3", "3", "0">>]

PageBlocks == {GoodBlock, OtherBlock, NoTitleBlock, NoStartBlock, UnparsableBlock}

\* most item blocks on a page
MaxItems == 3

PageNext ==
    /\ lastCall = NoCall
    /\ \E page \in SeqsUpTo(PageBlocks, MaxItems) :
        /\ lastCall' = [fn |-> "parseShows", page |-> page, result |-> ParseShows(page)]
        /\ UNCHANGED callFrame

PageSpec == Init /\ [][PageNext]_vars

\* the characters of the start times
TimeChars == {"0", "2", "3", "8", ":", "x"}

\* longest start time
MaxTimeLen == 5

EndTimeNext ==
    /\ lastCall = NoCall
    /\ \E startTime \in SeqsUpTo(TimeChars, MaxTimeLen) :
        /\ lastCall' = [fn |-> "calculateEndTime", startTime |-> startTime,
                        result |-> CalculateEndTime(startTime)]
        /\ UNCHANGED callFrame

EndTimeSpec == Init /\ [][EndTimeNext]_vars

----------------------------------------------------------------------------
(* The fetcher: ScheduleScraper.scrapeSchedule, buildUrl and fetchHtml
   (ScraperSpec) *)

\* the ScheduleScraper the ScraperManager makes for a station
ScheduleScraper(station, proxy) == [baseUrl |-> "https://www." \o station, proxy |-> proxy]

\* config.httpProxy || config.httpsProxy: an address, or "" for undefined
ProxyAddresses == {"", "http://proxy:3128"}

\* the scrapers in use
Scrapers == {ScheduleScraper(ConfigStations[k], proxy) :
                k \in 1..Len(ConfigStations), proxy \in ProxyAddresses}

\* variant, not the program's: the address starts with the scraper's base URL
BuildUrlFromBase(scraper, station, date) ==
    scraper.baseUrl \o "/sendeplan?day=" \o date \o "%2000:00:00"

\* buildUrl
BuildUrl(scraper, station, date) ==
    LET encodedDate == date \o "%2000:00:00"
    IN  "https://www." \o station \o "/sendeplan?day=" \o encodedDate

\* what the network answers to a request: fetch rejects, or a response with
\* a status whose text() gives the blocks of the page or rejects
FetchRejects == [kind |-> "rejected", message |-> "fetch failed"]
Response(status, statusText, readable, page) ==
    [kind |-> "response", status |-> status, statusText |-> statusText,
     readable |-> readable, page |-> page]

Answers ==
    {FetchRejects, Response(404, "Not Found", TRUE, <<>>),
     Response(500, "Internal Server Error", TRUE, <<>>),
     Response(200, "OK", FALSE, <<>>)}
        \cup {Response(200, "OK", TRUE, page) : page \in SeqsUpTo(PageBlocks, MaxItems)}

\* Response.ok
ResponseOk(response) == response.status \in 200..299

\* the request fetchHtml hands to fetch(url, fetchOptions): fetchOptions
\* holds headers only, the proxy of the scraper is logged and not applied
FetchRequest(scraper, url) == [url |-> url, via |-> "direct"]

\* fetchHtml: the page, or the Error thrown
FetchHtml(scraper, url, answer) ==
    IF answer.kind = "rejected"
    THEN [threw |-> TRUE, message |-> answer.message]
    ELSE IF ~ResponseOk(answer)
    THEN [threw |-> TRUE,
          message |-> "HTTP " \o ToString(answer.status) \o ": " \o answer.statusText]
    ELSE IF ~answer.readable
    THEN [threw |-> TRUE, message |-> "terminated"]
    ELSE [threw |-> FALSE, html |-> answer.page]

\* variant, not the program's: scrapeSchedule without its catch
ScrapeScheduleNoCatch(scraper, station, date, answer) ==
    LET html == FetchHtml(scraper, BuildUrl(scraper, station, date), answer)
    IN  IF html.threw
        THEN [threw |-> TRUE, message |-> html.message]
        ELSE [threw |-> FALSE,
              value |-> [station |-> station, date |-> date,
                         shows |-> ParseShows(html.html), success |-> TRUE, error |-> ""]]

\* scrapeSchedule: the ScrapeResult; error is "" where the field is not set
ScrapeSchedule(scraper, station, date, answer) ==
    LET html == FetchHtml(scraper, BuildUrl(scraper, station, date), answer)
    IN  [threw |-> FALSE,
         value |-> IF html.threw
                   THEN [station |-> station, date |-> date, shows |-> <<>>,
                         success |-> FALSE, error |-> html.message]
                   ELSE [station |-> station, date |-> date,
                         shows |-> ParseShows(html.html), success |-> TRUE, error |-> ""]]

\* the dates scrapeSchedule is called with
ScrapeDates == {"2025-10-15", "2025-10-16", "invalid-date"}

ScrapeCall ==
    /\ lastCall = NoCall
    /\ \E scraper \in Scrapers, k \in 1..Len(ConfigStations), date \in ScrapeDates,
          answer \in Answers :
        /\ lastCall' = [fn |-> "scrapeSchedule", scraper |-> scraper,
                        station |-> ConfigStations[k], date |-> date, answer |-> answer,
                        request |-> FetchRequest(scraper,
                                       BuildUrl(scraper, ConfigStations[k], date)),
                        result |-> ScrapeSchedule(scraper, ConfigStations[k], date, answer)]
        /\ UNCHANGED callFrame

BuildUrlCall ==
    /\ lastCall = NoCall
    /\ \E scraper \in Scrapers, k \in 1..Len(ConfigStations), date \in ScrapeDates :
        /\ lastCall' = [fn |-> "buildUrl", scraper |-> scraper,
                        station |-> ConfigStations[k], date |-> date,
                        result |-> BuildUrl(scraper, ConfigStations[k], date)]
        /\ UNCHANGED callFrame

ScraperNext == ScrapeCall \/ BuildUrlCall

ScraperSpec == Init /\ [][ScraperNext]_vars

----------------------------------------------------------------------------
(* Calls of filterShowsForDJ's predicate (MatchSpec) *)

\* the characters of the names: both cases of a letter, the rest of the
\* "DJ " prefix, a blank and another letter
NameChars == {"D", "d", "j", " ", "c"}

\* longest name of a show's DJ, and of a favourite
MaxNameLen == 4
MaxFavoriteLen == 2

MatchNext ==
    /\ lastCall = NoCall
    /\ \E showDj \in SeqsUpTo(NameChars, MaxNameLen),
          djName \in SeqsUpTo(NameChars, MaxFavoriteLen) :
        /\ lastCall' = [fn |-> "filterShowsForDJ", showDj |-> showDj, djName |-> djName,
                        result |-> FilterMatches(showDj, djName)]
        /\ UNCHANGED callFrame

MatchSpec == Init /\ [][MatchNext]_vars

----------------------------------------------------------------------------
(* Calls of parseNotificationTime (ParseSpec) *)

\* the characters of the offset literals: digits, the decimal point, the
\* units in both cases and a letter that is no unit
LiteralChars == {"1", "4", "5", ".", "d", "h", "H", "m", "x"}

\* longest offset literal
MaxLiteralLen == 4

ParseNext ==
    /\ lastCall = NoCall
    /\ \E timeStr \in SeqsUpTo(LiteralChars, MaxLiteralLen) :
        /\ lastCall' = [fn |-> "parseNotificationTime", timeStr |-> timeStr,
                        result |-> ParseNotificationTime(timeStr)]
        /\ UNCHANGED callFrame

ParseSpec == Init /\ [][ParseNext]_vars

----------------------------------------------------------------------------
(* The notification service over the store (NotifySpec) *)

\* today's show of the favourite DJ, and the show of another DJ in its slot
NotifyShows == {BaseShow, [BaseShow EXCEPT !.dj = "DJ B"]}

NotifyNext ==
    \/ \E item \in NotifyShows :
          /\ DbUpsertShows(<<item>>, 0)
          /\ polled' = {}
          /\ UNCHANGED <<notifyFrame, clock, notif, dispatched, duplicated>>
    \/ \E scan \in ScanOrders, fault \in BOOLEAN :
          NotifyStart(scan, fault) /\ UNCHANGED notifyFrame
    \/ NotifyStop /\ UNCHANGED notifyFrame
    \/ \E scan \in ScanOrders, fault \in BOOLEAN :
          NotifyCronTick(scan, fault) /\ UNCHANGED notifyFrame
    \/ \E delivered \in BOOLEAN :
          NotifySendDone(delivered) /\ UNCHANGED notifyFrame
    \/ \E instant \in Instants :
          ClockTick(instant) /\ UNCHANGED notifyFrame

NotifySpec == Init /\ [][NotifyNext]_vars

----------------------------------------------------------------------------
(* The notification service polling every quarter of an hour (PollSpec) *)

\* today's show of the favourite DJ, the show of another DJ in its slot, and
\* a show of the favourite DJ in two days
LaterShow == [BaseShow EXCEPT !.day = Today + 2, !.start = "18:00", !.end = "20:00"]
PollShows == {BaseShow, [BaseShow EXCEPT !.dj = "DJ B"], LaterShow}

\* the quarters the clock passes, the last one on the next day
PollInstants == {945, 960, 975, 1200, 1440}

\* Time passes up to the next quarter and the cron callback runs there; no
\* sendMessage is pending when time passes.
PollTick(instant, scan) ==
    /\ notif.cronJob
    /\ notif.pc = "idle"
    /\ instant > clock
    /\ \A other \in PollInstants : ~(clock < other /\ other < instant)
    /\ clock' = instant
    /\ CheckAndSendNotificationsAt(notif, scan, instant, FALSE)
    /\ UNCHANGED <<storeVars, dispatched, duplicated>>

\* The shows are stored and the service is started before the clock moves;
\* from then on the cron callback runs at every quarter and every sendMessage
\* succeeds.
PollNext ==
    \/ \E item \in PollShows :
          /\ clock = FirstInstant
          /\ ~notif.cronJob
          /\ DbUpsertShows(<<item>>, 0)
          /\ polled' = {}
          /\ UNCHANGED <<notifyFrame, clock, notif, dispatched, duplicated>>
    \/ \E scan \in ScanOrders :
          NotifyStart(scan, FALSE) /\ UNCHANGED notifyFrame
    \/ NotifySendDone(TRUE) /\ UNCHANGED notifyFrame
    \/ \E instant \in PollInstants, scan \in ScanOrders :
          PollTick(instant, scan) /\ UNCHANGED notifyFrame

PollSpec == Init /\ [][PollNext]_vars

----------------------------------------------------------------------------
(* The notification service around the start of a show (StartSpec) *)

\* the instants the clock takes: the quarter before the start of the show at
\* 20:00, the minute before it, the start, the minute and the quarter after it
StartInstants == {1185, 1199, 1200, 1201, 1215}

\* today's show of the favourite DJ is stored; the service is started and
\* stopped at any time, its cron callback runs at the quarters, and time
\* passes while a sendMessage is awaited
StartNext ==
    \/ /\ DbUpsertShows(<<BaseShow>>, 0)
       /\ polled' = {}
       /\ UNCHANGED <<notifyFrame, clock, notif, dispatched, duplicated>>
    \/ \E scan \in ScanOrders : NotifyStart(scan, FALSE) /\ UNCHANGED notifyFrame
    \/ NotifyStop /\ UNCHANGED notifyFrame
    \/ \E scan \in ScanOrders : NotifyCronTick(scan, FALSE) /\ UNCHANGED notifyFrame
    \/ \E delivered \in BOOLEAN : NotifySendDone(delivered) /\ UNCHANGED notifyFrame
    \/ \E instant \in StartInstants : ClockTick(instant) /\ UNCHANGED notifyFrame

StartSpec == Init /\ [][StartNext]_vars

----------------------------------------------------------------------------
(* Properties of the store (StoreSpec) *)

\* two rows or items name the same slot on the same source
SameKey(a, b) ==
    /\ a.day = b.day /\ a.stationDomain = b.stationDomain /\ a.dj = b.dj
    /\ a.title = b.title /\ a.start = b.start /\ a.end = b.end

\* two rows or items name the same slot on different sources
DifferOnlyInSource(a, b) ==
    /\ a.day = b.day /\ a.stationDomain # b.stationDomain /\ a.dj = b.dj
    /\ a.title = b.title /\ a.start = b.start /\ a.end = b.end

\* C5: in every store state and for every batch B, upserting B a second time
\* leaves the rows, their number and the id counter as the first upsert of B
\* left them: the second upsert persists no additional row.
C5_DedupIdempotence ==
    \A B \in Batches :
        LET once == UpsertShows(shows, nextId, stations, B, 0)
            twice == UpsertShows(once.shows, once.nextId, stations, B, 0)
        IN  /\ once.ok /\ twice.ok
            /\ twice.shows = once.shows
            /\ Cardinality(twice.shows) = Cardinality(once.shows)
            /\ twice.nextId = once.nextId

\* a call of upsertShows with a non-empty batch returned and added no row
C5_Witness ==
    /\ lastUpsert.ok /\ lastUpsert.repeat
    /\ shows # {}

SilentSkip ==
    \A item \in ShowPool :
        (\E r \in shows : SameKey(r, item)) =>
            LET res == UpsertShows(shows, nextId, stations, <<item>>, 0)
            IN  res.ok /\ res.shows = shows /\ res.nextId = nextId

\* C7 (step part): in every step, a stored row whose key is still stored
\* afterwards is there unchanged (same id, style and createdAt); only a step
\* that deletes the key (the retention sweep) makes room for another row.
FirstWrittenWins ==
    \A r \in shows : (\E r2 \in shows' : SameKey(r2, r)) => r \in shows'

\* C7: a conflict on the key is a silent skip: no error, and the existing
\* row's id, style and creation timestamp stay as first written until the
\* retention sweep deletes the row.
C7_ConflictIsSilentSkip == [](SilentSkip) /\ [][FirstWrittenWins]_vars

\* a call of upsertShows offered a row whose key was stored with another
\* style, and returned
C7_Witness ==
    /\ lastUpsert.ok /\ lastUpsert.shadowed
    /\ \E r \in shows : r.style = BaseShow.style
    /\ \E r \in shows : r.style # BaseShow.style

\* C8: in every store state, for every batch and every statement of it that
\* can fail: when a statement fails the call leaves the table and the id
\* counter as they were before it; otherwise every row of the batch whose key
\* was not stored is stored afterwards, next to all rows stored before.
C8_TransactionalPerBatch ==
    \A B \in Batches : \A k \in 0..Len(B) :
        LET res == UpsertShows(shows, nextId, stations, B, k)
        IN  IF res.ok
            THEN /\ k = 0
                 /\ shows \subseteq res.shows
                 /\ \A i \in 1..Len(B) : \E r \in res.shows : SameKey(r, B[i])
                 /\ \A r \in res.shows \ shows :
                        \E i \in 1..Len(B) : SameKey(r, B[i])
            ELSE /\ k > 0
                 /\ res.shows = shows
                 /\ res.nextId = nextId

\* a call of upsertShows threw after its transaction had inserted a row, and
\* the table holds none of the batch's new rows
C8_Witness ==
    /\ ~lastUpsert.ok /\ lastUpsert.undone
    /\ shows = {}

----------------------------------------------------------------------------
(* Properties of the run coordinator (Spec, FairSpec) *)

\* the runs inside their fetch / persist loop: 0 is the scheduled run, m > 0
\* the on-demand run m
ActiveRuns ==
    (IF Active(sched) THEN {0} ELSE {})
        \cup {m \in 1..MaxManual : Active(manual[m])}

\* the runs that have just processed a unit and are sleeping
SleepingRuns ==
    (IF sched.pc = "delay" THEN {sched} ELSE {})
        \cup {manual[m] : m \in {n \in 1..MaxManual : manual[n].pc = "delay"}}

\* the row of days for the unit a run is at
UnitDay(run) == [stationDomain |-> run.sts[run.si], day |-> run.dates[run.di]]

\* C1: no reachable state has two runs inside their fetch / persist loop (a
\* run-now request while a run is active starts nothing).
C1_AtMostOneRun == Cardinality(ActiveRuns) <= 1

\* C2: a trigger that arrives while a scheduled run is Running starts no run,
\* then or later: in every state the number of scheduled runs started equals
\* the number of triggers (the initial one of start included) that arrived
\* while the flag was reset, and no step taken while it is set starts a run.
C2_TriggersWhileRunningDropped ==
    /\ [](schedStarted = idleTriggers)
    /\ [][isRunning => schedStarted' = schedStarted]_vars

\* a trigger arrived while the one scheduled run was Running, that run has
\* ended, and the second trigger, arriving while Idle, has started a run
C2_Witness ==
    /\ dropped
    /\ schedStarted = 2
    /\ idleTriggers = 2
    /\ Active(sched)

\* C3: the flag is set only while the scheduled run is executing, and every
\* state in which it is set is followed by one in which it is reset, whatever
\* the units' outcomes and the faults of the outer calls.
C3_RunReturnsToIdle ==
    /\ [](isRunning => Active(sched))
    /\ (isRunning ~> ~isRunning)

\* a scheduled run ended by an exception of an outer call, with the flag reset
C3_Witness ==
    /\ sched.outcome = "failed"
    /\ ~Active(sched)
    /\ ~isRunning
    /\ schedStarted > 0

\* C4: the status query reports a run exactly when one, scheduled or on-demand,
\* is in progress.
C4_StatusIsActive == GetStatus <=> ActiveRuns # {}

\* C9: after a unit whose fetch succeeded and whose save raised no error, the
\* days table holds the row of the unit.
C9_DayRecordAfterFetch ==
    \A run \in SleepingRuns :
        (run.unit.success /\ ~run.unit.saveErr) => UnitDay(run) \in days

\* C10: after a unit that wrote its row of days, the shows table holds the
\* rows of all items of the unit.
C10_UnitAtomic ==
    \A run \in SleepingRuns :
        run.unit.dayWritten =>
            LET batch == ShowRecords(run.sts[run.si], run.dates[run.di],
                                     run.unit.shows)
            IN  \A i \in 1..Len(batch) : \E r \in shows : SameKey(r, batch[i])

\* all runs: the scheduled one and the on-demand ones, before and after a step
RunSteps ==
    {<<sched, sched', TRUE>>}
        \cup {<<manual[m], manual'[m], FALSE>> : m \in 1..MaxManual}

\* the unit a run moves to after the delay of its unit, as <<si, di>>; past
\* the last station when no unit remains
UnitAfter(run, scheduled) ==
    IF run.di < Len(run.dates)
    THEN <<run.si, run.di + 1>>
    ELSE <<NextStation(stations, run.sts, run.si + 1, scheduled), 1>>

\* C11 (step part): the completion of a unit's fetch, whatever its result and
\* whatever the outcome of saving, leaves the run at the delay of that unit;
\* after the delay the run fetches the next unit in order, and it ends as
\* completed only when no unit remains.
UnitFailureIsolated ==
    \A st \in RunSteps :
        LET run == st[1]
            after == st[2]
        IN  /\ (run.pc = "fetch" /\ after # run) =>
                  /\ after.pc = "delay"
                  /\ after.si = run.si /\ after.di = run.di
                  /\ after.sts = run.sts /\ after.dates = run.dates
            /\ (run.pc = "delay" /\ after.pc = "fetch") =>
                  <<after.si, after.di>> = UnitAfter(run, st[3])
            /\ (run.pc = "delay" /\ after.pc = "idle"
                    /\ after.outcome = "completed") =>
                  UnitAfter(run, st[3])[1] > Len(run.sts)

\* C11 (state part): a unit whose items were saved has them in the store,
\* whatever happened to the units before it.
SavedUnitsStored ==
    \A run \in SleepingRuns :
        run.unit.itemsWritten =>
            LET batch == ShowRecords(run.sts[run.si], run.dates[run.di],
                                     run.unit.shows)
            IN  \A i \in 1..Len(batch) : \E r \in shows : SameKey(r, batch[i])

\* C11: a failure of one (station, date) unit (fetch, extraction or save) does
\* not end the run: the remaining dates and stations are attempted in order
\* and the items of the other units are stored.
C11_UnitFailureIsolated == [](SavedUnitsStored) /\ [][UnitFailureIsolated]_vars

\* the only run so far, a scheduled one, has stored the items of its second
\* station after the save of the first station's unit failed (its days row
\* is written, none of its items is)
C11_Witness ==
    /\ schedStarted = 1
    /\ \A m \in 1..MaxManual : manual[m] = IdleRun(None)
    /\ sched.pc = "delay" /\ sched.si = 2 /\ sched.unit.itemsWritten
    /\ \E d \in days : d.stationDomain = ConfigStations[1]
    /\ ~\E r \in shows : r.stationDomain = ConfigStations[1]
    /\ \E r \in shows : r.stationDomain = ConfigStations[2]

----------------------------------------------------------------------------
(* Properties of the retention sweep (RetentionSpec) *)

\* C12: a call of cleanupOldData removes every item dated exactly today - N
\* and keeps every item dated today - (N - 1).
C12_RetentionBoundary ==
    [][lastCleanup' # "none" =>
          \A r \in shows :
              /\ r.day = Today - RetentionDays => r \notin shows'
              /\ r.day = Today - (RetentionDays - 1) => r \in shows']_vars

\* C13: once cleanupOldData has been called, the store holds no item and no
\* days row dated before today - N.
C13_NothingOlderAfterCleanup ==
    lastCleanup # "none" =>
        /\ \A r \in shows : ~(r.day < Today - RetentionDays)
        /\ \A d \in days : ~(d.day < Today - RetentionDays)

\* C15: every row of bot_notifications_sent names the id of a stored show:
\* a show deleted by cleanupOldData takes its rows along, and
\* markNotificationSent adds no row for an id that is not in shows.
C15_SentReferencesShow ==
    \A n \in sent : \E r \in shows : r.id = n.showId

\* markNotificationSent was refused for the id of a show that the cleanup
\* has deleted, and no row names that id
C15_Witness ==
    /\ lastMark.called
    /\ ~lastMark.ok
    /\ lastMark.showId < nextId
    /\ \A r \in shows : r.id # lastMark.showId
    /\ \A n \in sent : n.showId # lastMark.showId
    /\ sent # {}

----------------------------------------------------------------------------
(* Properties of the run coordinator, continued (Spec) *)

\* the runs that are not executing
EndedRuns ==
    (IF sched.pc = "idle" THEN {sched} ELSE {})
        \cup {manual[m] : m \in {n \in 1..MaxManual : manual[n].pc = "idle"}}

\* C14: every run, scheduled or on-demand, that has processed its last unit
\* and returned has called the retention cleanup exactly once.
C14_CleanupOncePerRun ==
    \A run \in EndedRuns : run.outcome = "completed" => run.cleanups = 1

\* a request of POST /api/scrape that names an unknown station or carries a
\* date that is not written YYYY-MM-DD
UnknownSource(station) == station # Absent /\ \A s \in stations : s.domain # station[1]
MalformedList(dates) == dates # Absent /\ \E k \in 1..Len(dates[1]) : dates[1][k].text # IsoText
InvalidRequest(station, dates) == UnknownSource(station) \/ MalformedList(dates)

\* C18: a POST /api/scrape with an unknown station or with a date that is not
\* written YYYY-MM-DD is answered with 404 or 400, starts no run and no fetch
\* and leaves the store unchanged.
C18_InvalidRequestRejected ==
    [][\A m \in 1..MaxManual, s \in RequestStations, d \in RequestDates, f \in OuterFaults :
          (PostScrape(m, s, d, f) /\ InvalidRequest(s, d)) =>
              /\ reply' \in {400, 404}
              /\ UNCHANGED <<storeVars, manual, sched, isRunning, schedStarted>>]_vars

\* a request with a malformed date has been answered while no manual run
\* is executing
C18_Witness == reply = 400 /\ \A m \in 1..MaxManual : ~Active(manual[m])

----------------------------------------------------------------------------
(* Properties of the queries (QuerySpec) *)

\* the rows of a list
Range(list) == {list[i] : i \in 1..Len(list)}

\* the list is ascending by (day, start time)
Ascending(list) ==
    \A i, j \in 1..Len(list) :
        i < j => \/ list[i].day < list[j].day
                 \/ /\ list[i].day = list[j].day
                    /\ Rank(StartTimes, list[i].start) <= Rank(StartTimes, list[j].start)

\* the stored rows that match the last query's source and day filter
Matching ==
    {r \in shows :
        /\ r.stationDomain = lastQuery.stationDomain
        /\ lastQuery.date # Absent => r.day = lastQuery.date[1]
        /\ (lastQuery.date = Absent /\ lastQuery.from # Absent /\ lastQuery.to # Absent)
              => (lastQuery.from[1] <= r.day /\ r.day <= lastQuery.to[1])}

SameQuery(p, q) ==
    /\ p.scan = q.scan
    /\ p.stationDomain = q.stationDomain
    /\ p.date = q.date
    /\ p.from = q.from
    /\ p.to = q.to

\* the list getShows returned holds the matching rows, ascending
SortedResult ==
    lastQuery.asked => Range(lastQuery.result) = Matching /\ Ascending(lastQuery.result)

\* a call repeated on the same store content returns the same list
RepeatableResult ==
    (lastQuery.asked /\ lastQuery'.asked /\ SameQuery(lastQuery, lastQuery'))
        => lastQuery'.result = lastQuery.result

C17_DatePrecedence ==
    lastQuery.asked =>
        LET got == Range(lastQuery.result)
            ofSource == {r \in shows : r.stationDomain = lastQuery.stationDomain}
        IN  /\ got \subseteq ofSource
            /\ (lastQuery.date # Absent /\ lastQuery.from # Absent /\ lastQuery.to # Absent)
                  => got = {r \in ofSource : r.day = lastQuery.date[1]}
            /\ (lastQuery.date = Absent /\ lastQuery.from = Absent /\ lastQuery.to = Absent)
                  => got = ofSource

\* a call with a date and a range that excludes the date returned the rows
\* of the date, while the store holds a row of the station inside the range
C17_Witness ==
    /\ lastQuery.asked
    /\ lastQuery.date = Some(Today)
    /\ lastQuery.from = Some(OldDay)
    /\ lastQuery.to = Some(OldDay)
    /\ lastQuery.result # <<>>
    /\ \E r \in shows : r.stationDomain = lastQuery.stationDomain /\ r.day = OldDay

----------------------------------------------------------------------------
(* Properties of the notification service (NotifySpec) *)

\* the pass is waiting for the sendMessage of this <<show id, literal>> pair
Firing(pair) ==
    /\ notif.pc = "send"
    /\ pair = <<notif.djShows[notif.s].id, NotificationTimes[notif.k]>>

\* bot_notifications_sent holds a row for the pair
Recorded(pair) ==
    \E n \in sent : n.showId = pair[1] /\ n.type = NotificationType(pair[2])

\* the show's start minus the offset of the literal, in minutes of the clock
AlertInstant(pair) ==
    LET show == CHOOSE r \in shows : r.id = pair[1]
    IN  ParseShowTime(show.day, show.start) - NotificationMinutes(pair[2])

PassPosition == <<notif.isRunning, notif.pc, notif.user, notif.djShows, notif.s, notif.k>>

\* C23: passes are single-flight: no pass begins while another one is at its
\* await; while the flag is set, every step but the return of the awaited
\* sendMessage (the only step that writes bot_notifications_sent) leaves the
\* pass where it is, so a trigger is skipped; and the flag is set exactly
\* while a pass is executing, so it is reset when the pass ends or fails.
C23_SingleFlight ==
    /\ [](~notif.overlapped /\ (notif.isRunning <=> notif.pc = "send"))
    /\ [][(notif.isRunning /\ sent' = sent) => PassPosition' = PassPosition]_vars

\* a trigger was skipped while a pass was executing, and a later pass has
\* failed and left the flag reset
C23_Witness ==
    /\ notif.skipped
    /\ notif.outcome = "failed"
    /\ ~notif.isRunning
    /\ sent # {}

\* C22: bot_notifications_sent records a pair only after a sendMessage for
\* it has succeeded; a failed dispatch leaves the pair unrecorded, so that the
\* next poll inside the window sends again.
C22_RecordOnlyAfterDispatch ==
    \A pair \in {r.id : r \in shows} \X Range(NotificationTimes) :
        Recorded(pair) => pair \in dispatched

----------------------------------------------------------------------------
(* Properties of the polling service (PollSpec) *)

\* the <<show id, literal>> pairs of the stored shows of the favourite DJ
\* whose alert instant had not passed when the clock started
PendingPairs ==
    {pair \in {r.id : r \in shows} \X Range(NotificationTimes) :
        /\ \E r \in shows : r.id = pair[1] /\ DjMatches(r.dj, FavoriteDJ.djName)
        /\ AlertInstant(pair) > FirstInstant}

\* C21: with a poll at every quarter and every dispatch succeeding, each pair
\* of a stored show of the favourite DJ and a literal of the preferences
\* whose alert instant had not passed has fired once the clock is more than
\* a quarter past that instant.
C21_NoMissedFiring ==
    \A pair \in PendingPairs :
        clock > AlertInstant(pair) + WindowMinutes => Recorded(pair)

----------------------------------------------------------------------------
(* Properties of the DJ name match (MatchSpec) *)

\* the letters of a name in one case
SameCase(str) ==
    [i \in 1..Len(str) |->
        CASE str[i] = "D" -> "d" [] str[i] = "J" -> "j" [] str[i] = "C" -> "c"
          [] str[i] = "S" -> "s" [] OTHER -> str[i]]

\* str holds sub as a substring, whatever the case of the letters
Contains(str, sub) ==
    \E offset \in 0..Len(str) :
        /\ offset + Len(sub) <= Len(str)
        /\ \A i \in 1..Len(sub) : SameCase(str)[offset + i] = SameCase(sub)[i]

\* the words of a name (maximal runs without a blank), in one case
RECURSIVE Words(_, _)
Words(str, word) ==
    IF str = <<>>
    THEN IF word = <<>> THEN <<>> ELSE <<word>>
    ELSE IF Head(str) = " "
    THEN (IF word = <<>> THEN <<>> ELSE <<word>>) \o Words(Tail(str), <<>>)
    ELSE Words(Tail(str), Append(word, Head(SameCase(str))))

\* the name begins with the token "DJ" and a blank
HasDjToken(str) == Len(str) >= 3 /\ SubSeq(SameCase(str), 1, 3) = <<"d", "j", " ">>

\* the words of a name without a leading "DJ " token
StrippedWords(str) ==
    IF HasDjToken(str) THEN Tail(Words(str, <<>>)) ELSE Words(str, <<>>)

\* the match as the claim states it
ClaimedMatch(a, b) ==
    \/ Contains(a, b)
    \/ Contains(b, a)
    \/ StrippedWords(a) = StrippedWords(b)

CloudSeven == <<"C", "l", "o", "u", "d", " ", "S", "e", "v", "e", "n">>

\* the favourite "Cloud Seven" against the show names of the example
CloudSevenMatches ==
    /\ FilterMatches(<<"D", "J", " ">> \o CloudSeven, CloudSeven)
    /\ FilterMatches(<<"d", "j", " ">> \o ToLowerCase(CloudSeven), CloudSeven)

\* C24: the match of filterShowsForDJ holds exactly when, whatever the case,
\* one name contains the other or both are equal after dropping a leading
\* "DJ " and collapsing blanks; it is symmetric; and the favourite "Cloud
\* Seven" matches "DJ Cloud Seven" and "dj cloud seven".
C24_PresenterMatch ==
    /\ lastCall.fn = "filterShowsForDJ" =>
          /\ lastCall.result <=> ClaimedMatch(lastCall.showDj, lastCall.djName)
          /\ lastCall.result <=> FilterMatches(lastCall.djName, lastCall.showDj)
    /\ CloudSevenMatches

\* the names match only after normalisation: neither contains the other
C24_Witness ==
    /\ lastCall.fn = "filterShowsForDJ"
    /\ lastCall.result
    /\ ~Includes(ToLowerCase(lastCall.showDj), ToLowerCase(lastCall.djName))
    /\ ~Includes(ToLowerCase(lastCall.djName), ToLowerCase(lastCall.showDj))
    /\ HasDjToken(lastCall.showDj)

----------------------------------------------------------------------------
(* Properties of the offset parsing (ParseSpec) *)

UnitLetters == {"d", "D", "h", "H", "m", "M"}

\* the text of the number of a literal: all of it but a final unit letter
NumberText(literal) ==
    IF literal # <<>> /\ literal[Len(literal)] \in UnitLetters
    THEN SubSeq(literal, 1, Len(literal) - 1)
    ELSE literal

\* the minutes one unit of the literal stands for
UnitMinutes(literal) ==
    IF literal = <<>> THEN 60
    ELSE CASE literal[Len(literal)] \in {"d", "D"} -> 1440
           [] literal[Len(literal)] \in {"h", "H"} -> 60
           [] literal[Len(literal)] \in {"m", "M"} -> 1
           [] OTHER -> 60

IsDecimalDigit(ch) == ch \in {"0", "1", "2", "3", "4", "5", "6", "7", "8", "9"}

\* a decimal number: digits with at most one point among them, and a digit
\* before the point
IsDecimal(text) ==
    /\ text # <<>>
    /\ IsDecimalDigit(text[1])
    /\ \A i \in 1..Len(text) : IsDecimalDigit(text[i]) \/ text[i] = "."
    /\ Cardinality({i \in 1..Len(text) : text[i] = "."}) <= 1

\* the digits after the point
Decimals(text) ==
    LET points == {i \in 1..Len(text) : text[i] = "."}
    IN  IF points = {} THEN 0 ELSE Len(text) - (CHOOSE i \in points : TRUE)

\* the number as a count of units of 10^-Decimals
RECURSIVE Scaled(_)
Scaled(text) ==
    IF text = <<>>
    THEN 0
    ELSE IF text[Len(text)] = "."
    THEN Scaled(SubSeq(text, 1, Len(text) - 1))
    ELSE 10 * Scaled(SubSeq(text, 1, Len(text) - 1))
            + (CHOOSE v \in 0..9 : ToString(v) = text[Len(text)])

RECURSIVE Tens(_)
Tens(k) == IF k = 0 THEN 1 ELSE 10 * Tens(k - 1)

Distance(a, b) == IF a >= b THEN a - b ELSE b - a

Minutes(literal) == ParseNotificationTime(literal).value.num

\* the literals of the examples
C25_Examples ==
    /\ Minutes(<<"4", ".", "5", "h">>) = 270
    /\ Minutes(<<"1", "d">>) = 1440
    /\ Minutes(<<"3", "0", "m">>) = 30
    /\ Minutes(<<"2">>) = 120
    /\ Minutes(<<"4", ".", "5", "H">>) = 270

----------------------------------------------------------------------------
(* Properties of the notification preferences (PrefSpec) *)

\* the literal has a number in front of its unit
HasNumber(literal) == literal # <<>> /\ literal[1] \in {"0", "1", "2", "3", "4", "5", "6", "7", "8", "9"}

\* every literal of the text parses to a number
IsFiniteNotificationTimes(timeStr) ==
    LET parsed == ParseNotificationTimes(timeStr)
    IN  ~parsed.threw /\ \A i \in 1..Len(parsed.value) : ~parsed.value[i].nan

\* the offsets stored for a user
StoredTimes(telegramId) == GetBotUserPreferences(preferences, telegramId).notificationTimes

\* C26: a message with an offset literal that has no number is answered with
\* the validation error and stores nothing; every stored literal parses to a
\* finite duration; and an accepted update stores exactly the literals the
\* user supplied.
C26_InvalidRejectedValidStored ==
    /\ \A r \in preferences :
          IsFiniteNotificationTimes(Join(StoredTimes(r.telegramId), <<",">>))
    /\ lastCall.fn = "/notify" =>
          /\ (\E i \in 1..Len(lastCall.supplied) : ~HasNumber(lastCall.supplied[i])) =>
                lastCall.message = "invalid"
          /\ lastCall.message = "updated" =>
                StoredTimes(lastCall.telegramId) = lastCall.supplied

\* C27: the store holds at most one preference row per user, and after an
\* update the offsets read back for the user are exactly the list written.
C27_OneRowOverwritten ==
    /\ \A r1, r2 \in preferences : r1.telegramId = r2.telegramId => r1 = r2
    /\ (lastCall.fn = "/notify" /\ lastCall.message = "updated") =>
          StoredTimes(lastCall.telegramId) = lastCall.written

\* an update over a row that held another list
C27_Witness ==
    /\ lastCall.fn = "/notify"
    /\ lastCall.message = "updated"
    /\ lastCall.before # {}
    /\ \A r \in lastCall.before : JsonParse(r.notification_times).value # lastCall.written
    /\ \E r \in preferences : r.telegramId # lastCall.telegramId

----------------------------------------------------------------------------
(* Properties of the extractor (PageSpec, ItemSpec, EndTimeSpec) *)

\* the text holds something besides blanks
NonBlank(text) == \E i \in 1..Len(text) : text[i] # " "

\* the block has its three required fields
Complete(block) ==
    /\ block.start.present
    /\ NonBlank(block.start.text)
    /\ NonBlank(block.dj)
    /\ NonBlank(block.title)

\* the block names an end time, beside the start time or in its attribute
NamesEnd(block) ==
    \/ block.next.present /\ NonBlank(block.next.text)
    \/ ~block.next.present /\ block.start.content.present
          /\ TimeInContent(block.start.content.text).matched

\* the block fails to parse: no end time is named and the start time has no
\* ':' to compute one from
Unparsable(block) ==
    ~NamesEnd(block) /\ \A i \in 1..Len(block.start.text) : block.start.text[i] # ":"

\* the places of the blocks of a page that are accepted
Accepted(page) == {i \in 1..Len(page) : Complete(page[i]) /\ ~Unparsable(page[i])}

\* C28: parseShows returns, in page order, exactly the blocks whose start
\* time, DJ and title are not blank and that do not fail to parse; the other
\* blocks are dropped without a trace in the result; a well-formed block and
\* one without a title give one show, and a page without an accepted block
\* gives the empty list.
C28_ExactlyCompleteBlocks ==
    /\ Len(ParseShows(<<GoodBlock, NoTitleBlock>>)) = 1
    /\ lastCall.fn = "parseShows" =>
          LET page == lastCall.page
              result == lastCall.result
              rank(i) == Cardinality({j \in Accepted(page) : j <= i})
          IN  /\ Len(result) = Cardinality(Accepted(page))
              /\ \A i \in Accepted(page) :
                    /\ result[rank(i)].start = Trim(page[i].start.text)
                    /\ result[rank(i)].dj = Trim(page[i].dj)
                    /\ result[rank(i)].title = Trim(page[i].title)
              /\ Accepted(page) = {} => result = <<>>

\* a block that fails to parse between two well-formed ones
C28_Witness ==
    /\ lastCall.fn = "parseShows"
    /\ lastCall.page = <<GoodBlock, UnparsableBlock, OtherBlock>>
    /\ Len(lastCall.result) = 2
    /\ lastCall.result[2].dj = <<"B">>

\* the end time calculateEndTime gives for the start time of the block
Synthesized(block) == CalculateEndTime(Trim(block.start.text)).value

\* the sibling of the start time field gives an end time
SiblingGives(block) == block.next.present /\ NonBlank(block.next.text)

\* the attribute of the start time field gives an end time
AttributeGives(block) ==
    block.start.content.present /\ TimeInContent(block.start.content.text).matched

\* the call of parseShowItem accepted its block
ItemAccepted == lastCall.fn = "parseShowItem" /\ ~lastCall.result.threw /\ lastCall.result.show # <<>>

IsClockTime(text) ==
    /\ Len(text) = 5
    /\ text[3] = ":"
    /\ \A i \in {1, 2, 4, 5} : text[i] \in {"0", "1", "2", "3", "4", "5", "6", "7", "8", "9"}
    /\ SubSeq(text, 1, 2) \in {<<ToString(h \div 10), ToString(h % 10)>> : h \in 0..23}
    /\ text[4] \in {"0", "1", "2", "3", "4", "5"}

DigitOf(ch) == CHOOSE v \in 0..9 : ToString(v) = ch

\* the minutes since midnight of a time of day, and back
MinuteOfDay(text) ==
    (10 * DigitOf(text[1]) + DigitOf(text[2])) * 60 + 10 * DigitOf(text[4]) + DigitOf(text[5])

ClockTime(minute) ==
    LET h == minute \div 60
        m == minute % 60
    IN  <<ToString(h \div 10), ToString(h % 10), ":", ToString(m \div 10), ToString(m % 10)>>

C30_Examples ==
    /\ CalculateEndTime(<<"0", "8", ":", "0", "0">>).value = <<"1", "0", ":", "0", "0">>
    /\ CalculateEndTime(<<"2", "2", ":", "0", "0">>).value = <<"0", "0", ":", "0", "0">>
    /\ CalculateEndTime(<<"2", "3", ":", "3", "0">>).value = <<"0", "1", ":", "3", "0">>

\* C30: for a start time HH:MM, calculateEndTime gives the time of day two
\* hours later, past midnight if need be, as HH:MM with the same minutes:
\* 08:00 gives 10:00, 22:00 gives 00:00, 23:30 gives 01:30.
C30_TwoHoursLater ==
    /\ C30_Examples
    /\ (lastCall.fn = "calculateEndTime" /\ IsClockTime(lastCall.startTime)) =>
          /\ ~lastCall.result.threw
          /\ lastCall.result.value = ClockTime((MinuteOfDay(lastCall.startTime) + 120) % 1440)
          /\ SubSeq(lastCall.result.value, 3, 5) = SubSeq(lastCall.startTime, 3, 5)

\* a start in the last two hours of the day
C30_Witness ==
    /\ lastCall.fn = "calculateEndTime"
    /\ lastCall.startTime = <<"2", "3", ":", "3", "0">>
    /\ ~lastCall.result.threw
    /\ lastCall.result.value = <<"0", "1", ":", "3", "0">>

----------------------------------------------------------------------------
(* Properties of the fetcher (ScraperSpec) *)

\* the answer leaves scrapeSchedule without a page
FetchFails(answer) ==
    \/ answer.kind = "rejected"
    \/ answer.status < 200 \/ answer.status > 299
    \/ ~answer.readable

C33_ProxyApplied ==
    lastCall.fn = "scrapeSchedule" =>
        lastCall.request.via =
            IF lastCall.scraper.proxy # "" THEN lastCall.scraper.proxy ELSE "direct"

\* the address the repository's test expects for technobase.fm
TestUrl == "https://www.technobase.fm/sendeplan?day=2025-10-15%2000:00:00"

\* C35: buildUrl(station, date) is https://www.<station>/sendeplan?day=<date>
\* followed by %2000:00:00, whatever the base URL and the proxy of the scraper
\* it is called on.
C35_UrlFromStationAndDate ==
    lastCall.fn = "buildUrl" =>
        /\ Len(lastCall.result) =
              Len("https://www./sendeplan?day=%2000:00:00") + Len(lastCall.station)
                  + Len(lastCall.date)
        /\ \A other \in Scrapers :
              BuildUrl(other, lastCall.station, lastCall.date) = lastCall.result
        /\ (lastCall.station = "technobase.fm" /\ lastCall.date = "2025-10-15") =>
              lastCall.result = TestUrl
        /\ (lastCall.station = "housetime.fm" /\ lastCall.date = "2025-10-15") =>
              lastCall.result = "https://www.housetime.fm/sendeplan?day=2025-10-15%2000:00:00"

\* buildUrl for a station on the scraper of another station
C35_Witness ==
    /\ lastCall.fn = "buildUrl"
    /\ lastCall.scraper.baseUrl = "https://www.housetime.fm"
    /\ lastCall.station = "technobase.fm"
    /\ lastCall.date = "2025-10-15"
    /\ lastCall.result = TestUrl

----------------------------------------------------------------------------
(* Properties of runs over enabled and disabled stations (RunSpec) *)

\* <<si, di>> of one unit comes before that of another in the order of a run
UnitBefore(a, b) == a[1] < b[1] \/ (a[1] = b[1] /\ a[2] < b[2])

\* no element occurs twice in the list
NoRepeats(list) == \A i, j \in 1..Len(list) : list[i] = list[j] => i = j

\* the stations and the dates of a run name every unit once
UnitsNamedOnce ==
    \A run \in {sched} \cup {manual[m] : m \in 1..MaxManual} :
        Active(run) => NoRepeats(run.sts) /\ NoRepeats(run.dates)

\* the end of a fetch, failed or not, is never the start of another fetch, and
\* a fetch that is started is of a unit later in the run than the one before
NoRefetch ==
    \A st \in RunSteps :
        LET run == st[1]
            after == st[2]
        IN  /\ (run.pc = "fetch" /\ after # run) =>
                  /\ after.pc = "delay"
                  /\ ~UnitBefore(<<after.si, after.di>>, <<run.si, run.di>>)
            /\ (run.pc = "delay" /\ after.pc = "fetch") =>
                  /\ after.sts = run.sts /\ after.dates = run.dates
                  /\ UnitBefore(<<run.si, run.di>>, <<after.si, after.di>>)

FetchesEnabledStation(run) ==
    run.pc = "fetch" =>
        \E s \in stations : s.domain = run.sts[run.si] /\ s.enabled

SkippedBetween(run, i, j, scheduled) ==
    \A k \in (i + 1)..(j - 1) :
        LET station == GetStation(stations, run.sts[k])
        IN  IF scheduled THEN SkipScheduled(station) ELSE SkipManual(station)

\* the days of the list ascend
WindowOrder(dates) == \A i, j \in 1..Len(dates) : i < j => dates[i] < dates[j]

\* the scheduled run goes over the configured stations and the window's days
\* in their order
ScheduledOverWindow ==
    Active(sched) =>
        /\ sched.sts = ConfigStations
        /\ sched.dates = GenerateDateRange
        /\ WindowOrder(sched.dates)

\* a run awaits one fetch at a time: a fetch starts when the run starts, at
\* the first date of its first station, or when the delay after the save of
\* the unit before it is over: at the next date of the same station, and at
\* the first date of the next station only after the station's last date
OneUnitAtATime ==
    \A st \in RunSteps :
        LET run == st[1]
            after == st[2]
        IN  (after.pc = "fetch" /\ after # run) =>
                \/ /\ run.pc = "idle"
                   /\ after.di = 1
                   /\ SkippedBetween(after, 0, after.si, st[3])
                \/ /\ run.pc = "delay"
                   /\ after.sts = run.sts /\ after.dates = run.dates
                   /\ \/ after.si = run.si /\ after.di = run.di + 1
                      \/ /\ run.di = Len(run.dates)
                         /\ after.si > run.si
                         /\ after.di = 1
                         /\ SkippedBetween(after, run.si, after.si, st[3])

\* C37: within one run the units are processed one after the other: a fetch
\* starts only after the save of the unit before it, the dates of a station in
\* window order, and every date of a station before the next station in
\* configuration order.
C37_SequentialUnits == [](ScheduledOverWindow) /\ [][OneUnitAtATime]_vars

\* the scheduled run is at its second station while an on-demand run is at
\* its second date
C37_Witness ==
    /\ sched.pc = "fetch"
    /\ sched.si = 2
    /\ \E m \in 1..MaxManual : manual[m].pc = "fetch" /\ manual[m].di = 2

----------------------------------------------------------------------------
(* Properties of a store that failed to initialize (DbSpec) *)

\* the reason the initialization failed for
InitializationReason == database.initializationError[1]

StoreOps == {"upsertShows", "upsertDay", "cleanupOldData", "getShows",
             "markNotificationSent"}

\* with a failed initialization the last store call threw the reason and the
\* health route answered 503, not healthy, not initialized, with the reason;
\* the process did not exit unless it could not listen
FailedStoreRefuses ==
    ~database.isInitialized =>
        /\ database.initializationError # Absent
        /\ lastOp.op \in StoreOps =>
              /\ lastOp.threw
              /\ lastOp.message = "Database not available: " \o InitializationReason
        /\ lastOp.op = "GET /health" =>
              /\ lastOp.code = 503 /\ lastOp.status = "unhealthy"
              /\ ~lastOp.healthy /\ ~lastOp.initialized
              /\ lastOp.error = Some(InitializationReason)
        /\ listening \in {"starting", "error mode", "exited: listen"}

\* with a store that initialized, a failing statement is reported otherwise:
\* the call throws the statement's error and the health route answers
\* initialized without a reason
TransientFailureDiffers ==
    database.isInitialized =>
        /\ (lastOp.op \in StoreOps /\ lastOp.threw) => lastOp.message = BusyMessage
        /\ lastOp.op = "GET /health" =>
              /\ lastOp.initialized
              /\ lastOp.error = Absent
              /\ lastOp.healthy <=> lastOp.code = 200

\* with a failed initialization no call changes the store or the
\* DatabaseManager, and a listening process goes on listening
FailedStoreUnchanged ==
    ~database.isInitialized =>
        /\ UNCHANGED <<stations, days, shows, nextId, sent, database>>
        /\ listening \in {"error mode", "normal"} => listening' = listening

----------------------------------------------------------------------------
(* Properties of the bot's handlers on the event loop (BotSpec) *)

\* the rows of the preferences of a user
PreferenceRows(rows, telegramId) == {r \in rows : r.telegramId = telegramId}

\* the user has a stored list that is not the default one
HasOwnOffsets(rows, telegramId) ==
    \E r \in PreferenceRows(rows, telegramId) :
        r.notification_times # JsonStringify(DefaultPreferences(telegramId).notificationTimes)

\* a stored list that is not the default changes only in the turn of a poll
\* that holds a /notify of the user, and not to the default
OwnOffsetsKept ==
    \A u \in TelegramIds :
        (/\ HasOwnOffsets(preferences, u)
         /\ PreferenceRows(preferences', u) # PreferenceRows(preferences, u)) =>
            /\ HasOwnOffsets(preferences', u)
            /\ lastCall'.fn = "processUpdate"
            /\ \E n \in 1..Len(lastCall'.batch) :
                  /\ lastCall'.batch[n].from = u
                  /\ lastCall'.batch[n].command = "/notify"

\* C38: once a /notify of a user has been accepted, no handler of a later or
\* of the same update (ensureUserExists of the 'message' listener or of
\* /waobot, getUserPreferences) puts the default list in place of the stored
\* one.
C38_DefaultNeverOverwrites == [][OwnOffsetsKept]_vars

\* ensureUserExists of a 'message' listener resumes for a user whose own list
\* is stored, while other handlers of the poll are still suspended
C38_Witness ==
    /\ lastCall.fn = "ensureUserExists"
    /\ lastCall.task.id[2] = "message"
    /\ HasOwnOffsets(lastCall.before, lastCall.task.telegramId)
    /\ HasOwnOffsets(preferences, lastCall.task.telegramId)
    /\ \E task \in handlers : task.telegramId = lastCall.task.telegramId

----------------------------------------------------------------------------
(* Properties of the notification service around the start (StartSpec) *)

\* the step calls sendNotification: the pass comes to await a sendMessage
\* it was not awaiting before
DispatchIssued ==
    /\ notif'.pc = "send"
    /\ notif.pc = "send" => <<notif'.s, notif'.k>> # <<notif.s, notif.k>>

\* a sendNotification is called no later than the start of its show, and no
\* later than the start minus the offset
DispatchedByStart ==
    DispatchIssued =>
        LET show == notif'.djShows[notif'.s]
            offset == NotificationMinutes(NotificationTimes[notif'.k])
        IN  offset >= 0 =>
                /\ clock' <= ParseShowTime(show.day, show.start)
                /\ clock' + offset <= ParseShowTime(show.day, show.start)

\* C39: for every stored offset that is not negative, sendNotification for a
\* show and the offset is called at an instant that is not later than the
\* show's start.
C39_NeverAfterStart == [][DispatchedByStart]_vars

\* the notification of the offset 0 is being sent at 20:00, the start of the
\* show
C39_Witness ==
    /\ notif.pc = "send"
    /\ NotificationTimes[notif.k] = <<"0">>
    /\ clock = ParseShowTime(notif.djShows[notif.s].day, notif.djShows[notif.s].start)
    /\ polled # {}

----------------------------------------------------------------------------
(* Properties of the queries with one bound (QuerySpec) *)

\* the stored rows of the source of the last query
RowsOfSource == {r \in shows : r.stationDomain = lastQuery.stationDomain}

\* the last query had no date and exactly one of from and to
OneBoundOnly ==
    /\ lastQuery.asked
    /\ lastQuery.date = Absent
    /\ (lastQuery.from = Absent) # (lastQuery.to = Absent)

\* C40: getShows filters by a range of days only when from and to are both
\* given (and no date): with one of them alone, or none, it returns every
\* stored row of the source; with both, the rows from from to to inclusive.
C40_RangeNeedsBothBounds ==
    (lastQuery.asked /\ lastQuery.date = Absent) =>
        Range(lastQuery.result) =
            IF lastQuery.from # Absent /\ lastQuery.to # Absent
            THEN {r \in RowsOfSource :
                     lastQuery.from[1] <= r.day /\ r.day <= lastQuery.to[1]}
            ELSE RowsOfSource

\* a query from today on, without to, returned a row of an older day
C40_Witness ==
    /\ OneBoundOnly
    /\ lastQuery.from = Some(Today)
    /\ \E r \in Range(lastQuery.result) : r.day < Today

====
